---- MODULE Spec2Model ----
(***************************************************************************)
(* CP decomposition by alternating least squares (BTAS).                   *)
(*                                                                         *)
(* Two layers are modelled.                                                *)
(*   - The engine layer (specification Spec): the control flow of the two  *)
(*     engines CP_ALS (one reference tensor) and CP_DF_ALS (a left and a   *)
(*     right reference tensor), i.e. compute_PALS, build, build_random,    *)
(*     ALS and the per-mode update, over the shapes of all tensors.  The   *)
(*     numeric content of a factor matrix is abstracted to one tag per     *)
(*     column; every shape, counter, flag and range is the code's.         *)
(*   - The kernel layer (specification SpecKernel): the contraction        *)
(*     arithmetic of CP_ALS::direct and CP_DF_ALS::direct on flat          *)
(*     row-major buffers of integers, index for index as in the code.      *)
(*                                                                         *)
(* Indices are 0-based as in the code; At(s, i) reads element i of a       *)
(* std::vector modelled as a sequence.                                     *)
(***************************************************************************)
EXTENDS Integers, Sequences, FiniteSets, TLC

\* ------------------------------------------------------------------ bounds
\* largest number of panels passed to compute_PALS
MaxPanels == 2
\* largest iteration cap max_als passed by a caller
MaxCap == 2
\* sweeps explored in one ALS call when the cap does not stop the loop
MaxSweeps == 3

\* ----------------------------------------------------------------- helpers
At(s, i) == s[i + 1]

SetAt(s, i, v) == [s EXCEPT ![i + 1] = v]

RECURSIVE Prod(_)
Prod(s) == IF s = <<>> THEN 1 ELSE Head(s) * Prod(Tail(s))

RECURSIVE MaxOf(_)
MaxOf(s) == IF Len(s) = 1 THEN s[1]
            ELSE LET m == MaxOf(Tail(s)) IN IF s[1] > m THEN s[1] ELSE m

Rep(n, v) == [k \in 1..n |-> v]

\* ---------------------------------------------------- tensors, shape level
\* btas::Tensor as seen by the engine layer: its range (per-mode extents)
\* and an identity for its element values.
Tensor(range, val) == [range |-> range, val |-> val]

NoTensor == Tensor(<<>>, "none")

Extent(t, k) == At(t.range, k)

Rank(t) == Len(t.range)

Size(t) == Prod(t.range)

\* Tensor::resize(Range): the range is replaced; the storage keeps its
\* values when the element count is unchanged.
Resize(t, range) == Tensor(range, IF Prod(range) = Size(t) THEN t.val ELSE "resized")

\* A factor matrix: a (rows x cols) tensor with one tag per column.
Matrix(rows, tags) == [range |-> <<rows, Len(tags)>>, col |-> tags]

\* A rank-1 tensor of the given length (the weight vector A[ndim]), one tag
\* per entry.
Vector(len, tag) == [range |-> <<len>>, col |-> Rep(len, tag)]

\* A default-constructed Tensor (std::vector<Tensor>(ndim) elements).
EmptyFactor == [range |-> <<>>, col |-> <<>>]

Cols(a) == IF Len(a.range) >= 2 THEN a.range[2] ELSE 0

Rows(a) == IF Len(a.range) >= 1 THEN a.range[1] ELSE 0


\* Column tags <<kind, normalized, sweep, mode>>: what a column holds.
Tag(kind, unit, sweep, mode) == <<kind, unit, sweep, mode>>

ZeroCol == Tag("zero", 0, 0, 0)

SvdCol == Tag("svd", 0, 0, 0)

RandCol == Tag("rand", 0, 0, 0)

LamCol == Tag("lambda", 0, 0, 0)

\* ------------------------------------------------------------ engine inputs
\* Ranges of the reference tensor handed to CP_ALS(tensor).
ALSRanges == {<<2, 3>>, <<2, 2, 2>>, <<4, 5, 6>>, <<1, 2, 1, 3>>, <<2, 0>>}

\* Ranges of the reference pair handed to CP_DF_ALS(left, right); mode 0 of
\* each is the connecting dimension (the constructors take any pair).
DFRanges == {<< <<2, 2>>, <<2, 2>> >>, << <<2, 2>>, <<2, 3>> >>,
             << <<3, 2, 2>>, <<3, 2, 2>> >>, << <<2, 2, 3>>, <<2, 2>> >>,
             << <<2, 3>>, <<2, 2, 2>> >>, << <<2, 2>>, <<3, 2>> >>}

\* Extents of the decomposed modes of a reference pair: left modes 1..L-1
\* followed by right modes 1..R-1.
DFModes(l, r) == Tail(l) \o Tail(r)

\* Symmetry maps the constructors accept (symmetries[i] <= i) that alias
\* only modes of equal extent.
ValidSymmetries(ext) ==
    {s \in [1..Len(ext) -> 0..(Len(ext) - 1)] :
        \A i \in 1..Len(ext) : s[i] <= i - 1 /\ ext[s[i] + 1] = ext[i]}

\* RankStep is a double in the code; here a fraction <<numerator, denominator>>.
RankSteps == {<<0, 1>>, <<1, 2>>, <<1, 1>>}

\* ------------------------------------------------------------------- state
VARIABLES
    engine,            \* "ALS": CP_ALS, "DF": CP_DF_ALS
    ndim,              \* CP::ndim
    ndimL,             \* CP_DF_ALS::ndimL
    ndimR,             \* CP_DF_ALS::ndimR
    symmetries,        \* CP::symmetries
    tensor_ref,        \* CP_ALS::tensor_ref (the caller's tensor)
    tensor_ref_left,   \* CP_DF_ALS::tensor_ref_left
    tensor_ref_right,  \* CP_DF_ALS::tensor_ref_right
    size,              \* CP_ALS::size
    A,                 \* CP::A, the factor matrices and the weight vector
    num_ALS,           \* CP::num_ALS
    lastLeft,          \* CP_DF_ALS::lastLeft
    leftTimesRight,    \* CP_DF_ALS::leftTimesRight
    dims,              \* CP_DF_ALS::dims
    pc,                \* where control is
    op,                \* the public operation in progress and its arguments
    pals,              \* locals of compute_PALS
    bld,               \* locals of build
    als,               \* locals of ALS
    obs,               \* what an observer of the run has seen
    kin,               \* kernel layer: inputs
    kout               \* kernel layer: outputs

vars == <<engine, ndim, ndimL, ndimR, symmetries, tensor_ref, tensor_ref_left,
          tensor_ref_right, size, A, num_ALS, lastLeft, leftTimesRight, dims,
          pc, op, pals, bld, als, obs, kin, kout>>

engineConst == <<engine, ndim, ndimL, ndimR, symmetries>>

refs == <<tensor_ref, tensor_ref_left, tensor_ref_right, size>>

cache == <<lastLeft, leftTimesRight, dims>>

kernel == <<kin, kout>>

NoLocals == [none |-> TRUE]

\* The ranges and values of the caller's tensors.
RefState == <<tensor_ref, tensor_ref_left, tensor_ref_right>>

ObsInit == [entry |-> <<NoTensor, NoTensor, NoTensor>>, sweeps |-> 0, tests |-> 0,
            order |-> <<>>, num0 |-> 0, A0 |-> <<>>, lateSweep |-> FALSE,
            alsReturned |-> FALSE, alsCalls |-> 0, failure |-> "none",
            again |-> FALSE,
            upd |-> [n |-> -1, recomputed |-> FALSE, first |-> FALSE, prev |-> -1]]

\* CP_ALS(tensor, symms) and CP_DF_ALS(left, right, symms) with a valid map.
InitALS ==
    \E r \in ALSRanges : \E s \in ValidSymmetries(r) :
        /\ engine = "ALS"
        /\ ndim = Len(r)
        /\ ndimL = 0
        /\ ndimR = 0
        /\ symmetries = s
        /\ tensor_ref = Tensor(r, "orig")
        /\ tensor_ref_left = NoTensor
        /\ tensor_ref_right = NoTensor
        /\ size = Prod(r)

InitDF ==
    \E p \in DFRanges : \E s \in ValidSymmetries(DFModes(p[1], p[2])) :
        /\ engine = "DF"
        /\ ndim = Len(p[1]) + Len(p[2]) - 2
        /\ ndimL = Len(p[1])
        /\ ndimR = Len(p[2])
        /\ symmetries = s
        /\ tensor_ref = NoTensor
        /\ tensor_ref_left = Tensor(p[1], "left")
        /\ tensor_ref_right = Tensor(p[2], "right")
        /\ size = 0

InitEngine ==
    /\ InitALS \/ InitDF
    /\ A = <<>>
    /\ num_ALS = 0
    /\ lastLeft = FALSE
    /\ leftTimesRight = EmptyFactor
    /\ dims = <<>>
    /\ pc = "idle"
    /\ op = NoLocals
    /\ pals = NoLocals
    /\ bld = NoLocals
    /\ als = NoLocals
    /\ obs = ObsInit

Init ==
    /\ InitEngine
    /\ kin = NoLocals
    /\ kout = NoLocals


\* ------------------------------------------------------- CP (base engine)
\* normCol: every column of the matrix is rescaled to unit 2-norm; a column
\* of zeros has no unit rescaling and stays a column of zeros.
normCol(a) ==
    [a EXCEPT !.col = [k \in 1..Len(a.col) |->
                          IF a.col[k][1] = "zero" THEN a.col[k]
                          ELSE [a.col[k] EXCEPT ![2] = 1]]]

\* BTAS_EXCEPTION: the operation in progress is abandoned.
Throw(what) ==
    /\ pc' = "failed"
    /\ obs' = [obs EXCEPT !.failure = what]

\* ----------------------------------------------------------- the ALS loop
\* count < max_als with count a size_t and max_als an int: the int is
\* converted to size_t, so a negative cap compares as a number larger than
\* every count.
SizeTLess(count, max_als) == IF max_als < 0 THEN TRUE ELSE count < max_als

\* A loop condition that admits one sweep more than the cap.
ALSContinueOver == als.count <= als.max_als /\ ~als.is_converged

\* while (count < max_als && !is_converged)
ALSContinue == SizeTLess(als.count, als.max_als) /\ ~als.is_converged

\* The locals of ALS(rank, converge_test, dir, max_als, ...) on entry.
ALSLocals(rank, max_als, dir, ret) ==
    [rank |-> rank, max_als |-> max_als, dir |-> dir, count |-> 0,
     is_converged |-> FALSE, i |-> 0, ret |-> ret]

\* The observer's record of a new ALS call on the factor set F.
ObsALS(o, F) ==
    [o EXCEPT !.sweeps = 0, !.tests = 0, !.order = <<>>, !.num0 = num_ALS,
              !.A0 = F, !.lateSweep = FALSE, !.alsReturned = FALSE,
              !.alsCalls = @ + 1]

\* CP_DF_ALS::ALS resets the cached intermediate: leftTimesRight = Tensor(1).
ALSResetCache ==
    IF engine = "DF"
    THEN [range |-> <<1>>, col |-> <<ZeroCol>>, from |-> <<>>]
    ELSE leftTimesRight

ALSSweepStart ==
    /\ pc = "als"
    /\ ALSContinue
    /\ als.count < MaxSweeps
    /\ als' = [als EXCEPT !.count = @ + 1, !.i = 0]
    /\ num_ALS' = num_ALS + 1
    /\ obs' = [obs EXCEPT !.sweeps = @ + 1, !.order = <<>>,
                          !.lateSweep = @ \/ als.is_converged]
    /\ pc' = "als_mode"
    /\ UNCHANGED <<engineConst, refs, A, cache, op, pals, bld, kernel>>

\* The end of one iteration of for (i = 0; i < ndim; i++).
ModeDone(i) ==
    /\ als' = [als EXCEPT !.i = i + 1]
    /\ pc' = IF i + 1 < ndim THEN "als_mode" ELSE "als_test"

\* An aliased mode that keeps its own factor.
AliasSourceSelf(i) == i

\* The factor an aliased mode is copied from: A[i] = A[symmetries[i]].
AliasSource(i) == At(symmetries, i)

ALSCopyAlias ==
    /\ pc = "als_mode"
    /\ At(symmetries, als.i) # als.i
    /\ A' = SetAt(A, als.i, At(A, AliasSource(als.i)))
    /\ obs' = [obs EXCEPT !.order = Append(@, als.i)]
    /\ ModeDone(als.i)
    /\ UNCHANGED <<engineConst, refs, num_ALS, cache, op, pals, bld, kernel>>

\* <<calculate_epsilon, the convergence policy is FitCheck>> of a call.
EpsilonModes == {<<FALSE, FALSE>>, <<TRUE, FALSE>>, <<TRUE, TRUE>>}

\* if (calculate_epsilon) at the end of ALS: with FitCheck epsilon = 1 - fit;
\* otherwise the single-tensor engine sets epsilon = norm(reconstruct() -
\* tensor_ref) and the two-tensor engine has no else branch.
ALSEpsilon(epsilon) ==
    IF ~op.calculate_epsilon THEN epsilon
    ELSE IF op.FitCheck THEN "one_minus_fit"
    ELSE IF engine = "ALS" THEN "residual"
    ELSE epsilon

\* The updated factor of mode n: extent(n) rows, rank unit columns, holding
\* the values computed in this sweep for this mode.
Updated(rows, rank, n) == Matrix(rows, Rep(rank, Tag("als", 1, num_ALS, n)))

\* this->normCol(temp); A[n] = temp: the magnitudes removed from the columns
\* go to the weight vector A[ndim], the normalized matrix replaces A[n].
WriteBack(F, n, M) ==
    SetAt(SetAt(F, n, M), ndim, Vector(Cols(M), Tag("lambda", 0, num_ALS, n)))

direct_last_dim(n) == n = ndim - 1

direct_contract_dim(n) == IF direct_last_dim(n) THEN 0 ELSE ndim - 1

\* The matrix shape CP_ALS::direct gives tensor_ref for its first gemm.
direct_resize(n) ==
    LET e == Extent(tensor_ref, direct_contract_dim(n))
        q == IF e = 0 THEN 0 ELSE size \div e
    IN  IF direct_last_dim(n) THEN <<e, q>> ELSE <<q, e>>

\* size / tensor_ref.extent(contract_dim) with a zero extent is an integer
\* division by zero: the division traps, or it yields the quotient 0.
direct_div_zero(n) == Extent(tensor_ref, direct_contract_dim(n)) = 0

\* gemm(op, NoTrans, tensor_ref, A[contract_dim], temp) has matching shapes.
direct_gemm_conforms(n, rank) ==
    LET a == At(A, direct_contract_dim(n))
    IN  /\ Rows(a) = Extent(tensor_ref, direct_contract_dim(n))
        /\ Cols(a) = rank


\* tensor_ref.resize(R) after the first gemm of direct.
direct_restore(R, reshaped) == Resize(reshaped, R)

\* CP_ALS::direct(n, rank, ...): the gemm runs on the reshaped tensor_ref;
\* when it fails the exception leaves direct before tensor_ref.resize(R).
ALSDirect ==
    /\ pc = "als_mode"
    /\ engine = "ALS"
    /\ At(symmetries, als.i) = als.i
    /\ als.dir
    /\ LET n == als.i
           R == tensor_ref.range
           reshaped == Resize(tensor_ref, direct_resize(n))
       IN  \E gemm_ok \in BOOLEAN, trap \in BOOLEAN :
              IF direct_div_zero(n) /\ trap
              THEN /\ Throw("sigfpe")
                   /\ UNCHANGED <<tensor_ref, A, als>>
              ELSE IF gemm_ok /\ direct_gemm_conforms(n, als.rank)
              THEN /\ tensor_ref' = direct_restore(R, reshaped)
                   /\ A' = WriteBack(A, n, Updated(Extent(tensor_ref, n), als.rank, n))
                   /\ obs' = [obs EXCEPT !.order = Append(@, n)]
                   /\ ModeDone(n)
              ELSE /\ tensor_ref' = reshaped
                   /\ Throw("gemm")
                   /\ UNCHANGED <<A, als>>
    /\ UNCHANGED <<engineConst, tensor_ref_left, tensor_ref_right, size, num_ALS,
                   cache, op, pals, bld, kernel>>

\* CP_ALS::update_w_KRP(n, rank, ...), CBLAS branch: flatten and generate_KRP
\* work on copies, tensor_ref is not reshaped.
ALSUpdateKRP ==
    /\ pc = "als_mode"
    /\ engine = "ALS"
    /\ At(symmetries, als.i) = als.i
    /\ ~als.dir
    /\ LET n == als.i
       IN  \E gemm_ok \in BOOLEAN :
              IF gemm_ok
              THEN /\ A' = WriteBack(A, n, Updated(Rows(At(A, n)), als.rank, n))
                   /\ obs' = [obs EXCEPT !.order = Append(@, n)]
                   /\ ModeDone(n)
              ELSE /\ Throw("gemm")
                   /\ UNCHANGED <<A, als>>
    /\ UNCHANGED <<engineConst, refs, num_ALS, cache, op, pals, bld, kernel>>

\* is_converged = converge_test(A): the verdict is the policy's.
ALSConverge ==
    /\ pc = "als_test"
    /\ \E verdict \in BOOLEAN : als' = [als EXCEPT !.is_converged = verdict]
    /\ obs' = [obs EXCEPT !.tests = @ + 1]
    /\ pc' = "als"
    /\ UNCHANGED <<engineConst, refs, A, num_ALS, cache, op, pals, bld, kernel>>

\* ALS returns to its caller.
ALSReturn ==
    /\ pc = "als"
    /\ ~ALSContinue
    /\ obs' = [obs EXCEPT !.alsReturned = TRUE]
    /\ CASE als.ret = "build_guess" ->
              /\ bld' = [bld EXCEPT !.i = Cols(At(A, 0))]
              /\ pc' = "build_for"
              /\ UNCHANGED pals
         [] als.ret = "build_step" ->
              /\ bld' = [bld EXCEPT !.i = @ + bld.step]
              /\ pc' = "build_for"
              /\ UNCHANGED pals
         [] als.ret = "pals" ->
              /\ pals' = [pals EXCEPT !.count = @ + 1]
              /\ pc' = "pals"
              /\ UNCHANGED bld
         [] als.ret = "random" ->
              /\ pc' = "scale"
              /\ UNCHANGED <<pals, bld>>
    /\ op' = [op EXCEPT !.epsilon = ALSEpsilon(@)]
    /\ UNCHANGED <<engineConst, refs, A, num_ALS, cache, als, kernel>>


\* ------------------------------------------------------------ rank growth
\* Tensor b(rows of a, rank_new): the first rank_old columns are copied from
\* a, the columns rank_old..rank_new-1 are filled with random numbers.
PadMatrix(a, rank_old, rank_new) ==
    Matrix(Rows(a),
           [k \in 1..rank_new |->
               IF k <= rank_old
               THEN IF k <= Len(a.col) THEN a.col[k] ELSE ZeroCol
               ELSE RandCol])

\* b.resize(Range{Range1{rank_new}}); for (k < A[0].extent(0)) b(k) = A[0](k):
\* the weights in lam are copied to the front of the resized b, the other
\* entries are what the resize left there.
PadWeights(lam, rank_new) ==
    [range |-> <<rank_new>>,
     col |-> [k \in 1..rank_new |->
                 IF k <= Rows(lam) /\ k <= Len(lam.col) THEN lam.col[k]
                 ELSE Tag("resized", 0, 0, 0)]]

\* this->normCol(0) inside a padding loop: A[0] is normalized.
NormFront(F) == IF F = <<>> THEN F ELSE <<normCol(F[1])>> \o Tail(F)

\* The padding loop of compute_PALS: in iteration i the front matrix is
\* padded, erased from the front and pushed to the back; the last iteration
\* also moves the weight vector; every iteration ends with normCol(0).
RECURSIVE PALSPad(_, _, _, _)
PALSPad(F, i, rank, rank_new) ==
    IF i >= ndim THEN F
    ELSE LET b == PadMatrix(F[1], rank, rank_new)
             F1 == Tail(F) \o <<b>>
             F2 == IF i + 1 = ndim
                   THEN Tail(F1) \o <<PadWeights(F1[1], rank_new)>>
                   ELSE F1
         IN  PALSPad(NormFront(F2), i + 1, rank, rank_new)


\* ind_t rank_new = rank + RankStep * max_dim: the double is truncated.
PanelRankNew(rank, RankStep, max_dim) ==
    (rank * RankStep[2] + RankStep[1] * max_dim) \div RankStep[2]

\* The extent of decomposed mode j in the reference tensor(s).
ModeExtent(j) ==
    IF engine = "ALS" THEN Extent(tensor_ref, j)
    ELSE IF j < ndimL - 1 THEN Extent(tensor_ref_left, j + 1)
    ELSE Extent(tensor_ref_right, j - ndimL + 2)

\* The loop over the factor matrices inside one step of build's rank loop.
RECURSIVE BuildGrow(_, _, _, _)
BuildGrow(F, j, i, rank_new) ==
    IF j >= ndim THEN F
    ELSE IF i = 0
         THEN LET a == Matrix(ModeExtent(j), Rep(rank_new, Tag("fill", 0, 0, 0)))
                  F1 == F \o <<a>>
                  F2 == IF j + 1 <= Len(F1) THEN SetAt(F1, j, normCol(At(F1, j))) ELSE F1
              IN  BuildGrow(F2, j + 1, i, rank_new)
         ELSE LET b == PadMatrix(F[1], Cols(F[1]), rank_new)
                  F1 == Tail(F) \o <<b>>
                  F2 == IF j = ndim - 1 THEN Tail(F1) ELSE F1
              IN  BuildGrow(F2, j + 1, i, rank_new)

\* Find the largest rank, this will be the first panel.
PALSMaxDim ==
    IF engine = "ALS" THEN MaxOf(tensor_ref.range)
    ELSE MaxOf(tensor_ref_left.range \o tensor_ref_right.range)

\* A compute_PALS whose argument checks accept every configuration.
PALSConfigErrorNone(RankStep, panels, nTests) == "none"

\* The two argument checks that open compute_PALS, in the order of the code:
\* if (RankStep <= 0) BTAS_EXCEPTION(...);
\* if (converge_list.size() < panels) BTAS_EXCEPTION(...).
PALSConfigError(RankStep, panels, nTests) ==
    IF RankStep[1] <= 0 THEN "RankStep"
    ELSE IF nTests < panels THEN "tests"
    ELSE "none"

\* compute_PALS(converge_list, RankStep, panels, max_als, ..., direct): the
\* argument checks and the search for max_dim.
compute_PALS ==
    /\ pc = "idle"
    /\ \E RankStep \in RankSteps, panels \in 1..MaxPanels, nTests \in 0..MaxPanels,
          max_als \in (-1)..MaxCap, direct \in BOOLEAN, eps \in EpsilonModes :
          /\ op' = [name |-> "compute_PALS", RankStep |-> RankStep, panels |-> panels,
                    nTests |-> nTests, max_als |-> max_als, direct |-> direct,
                    calculate_epsilon |-> eps[1], FitCheck |-> eps[2],
                    epsilon |-> "sentinel"]
          /\ LET err == PALSConfigError(RankStep, panels, nTests) IN
             IF err # "none"
             THEN /\ pc' = "failed"
                  /\ obs' = [obs EXCEPT !.entry = RefState, !.failure = err]
                  /\ UNCHANGED pals
             ELSE /\ pc' = "pals"
                  /\ obs' = [obs EXCEPT !.entry = RefState]
                  /\ pals' = [count |-> 0, max_dim |-> PALSMaxDim]
    /\ UNCHANGED <<engineConst, refs, A, num_ALS, cache, bld, als, kernel>>

\* while (count < panels), count == 0: build(max_dim, ..., 1, epsilon, true,
\* max_dim, fast_pI).
PALSFirstPanel ==
    /\ pc = "pals"
    /\ pals.count < op.panels
    /\ pals.count = 0
    /\ bld' = [rank |-> pals.max_dim, step |-> 1, SVD_initial_guess |-> TRUE,
               SVD_rank |-> pals.max_dim, max_als |-> op.max_als,
               direct |-> op.direct, i |-> 0, opt_in_for_loop |-> FALSE,
               ret |-> "pals"]
    /\ pc' = "build"
    /\ UNCHANGED <<engineConst, refs, A, num_ALS, cache, op, pals, als, obs, kernel>>

\* while (count < panels), count > 0: every factor matrix and the weight
\* vector are rebuilt with rank_new columns, then ALS(rank_new, ...).
PALSGrowPanel ==
    /\ pc = "pals"
    /\ pals.count < op.panels
    /\ pals.count # 0
    /\ LET rank == Cols(At(A, 0))
           rank_new == PanelRankNew(rank, op.RankStep, pals.max_dim)
           F == PALSPad(A, 0, rank, rank_new)
       IN  /\ A' = F
           /\ als' = ALSLocals(rank_new, op.max_als, op.direct, "pals")
           /\ obs' = ObsALS(obs, F)
    /\ leftTimesRight' = ALSResetCache
    /\ pc' = "als"
    /\ UNCHANGED <<engineConst, refs, num_ALS, lastLeft, dims, op, pals, bld, kernel>>

\* return epsilon
PALSReturn ==
    /\ pc = "pals"
    /\ ~(pals.count < op.panels)
    /\ pc' = "returned"
    /\ UNCHANGED <<engineConst, refs, A, num_ALS, cache, op, pals, bld, als, obs, kernel>>


\* ------------------------------------------------------------------ build
MaxRank == 2

\* A.empty() && SVD_initial_guess
BuildGuessCond == A = <<>> /\ bld.SVD_initial_guess

\* The factor of mode i in the SVD initial guess: lambda = Tensor(R, SVD_rank)
\* is zero filled, the R x min(R, SVD_rank) view of the eigenvectors is
\* copied element by element through lambda's own iterator (so the rows are
\* shifted when R < SVD_rank), and for R < SVD_rank the columns R..SVD_rank-1
\* are then overwritten with random numbers.
SVDFactor(R, SVD_rank) ==
    Matrix(R, [k \in 1..SVD_rank |->
                  IF k <= R
                  THEN IF R < SVD_rank /\ R > 1
                       THEN Tag("svd_shift", 0, 0, 0) ELSE SvdCol
                  ELSE RandCol])

\* for (i = 1; i < ndim; ++i) { if (symmetries[i] == i) normCol(A[i]);
\*                               A[i] = A[symmetries[i]]; }
RECURSIVE GuessNormalize(_, _)
GuessNormalize(F, i) ==
    IF i >= ndim THEN F
    ELSE LET F1 == IF At(symmetries, i) = i THEN SetAt(F, i, normCol(At(F, i))) ELSE F
         IN  GuessNormalize(SetAt(F1, i, At(F1, At(symmetries, i))), i + 1)

\* The SVD initial guess of the single-tensor engine: A[0] is zero filled and
\* the loop over the modes starts at 1; mode 0 is among the modes whose
\* columns extent..SVD_rank-1 are then filled with random numbers.
GuessALS(SVD_rank) ==
    LET F0 == [k \in 1..ndim |->
                  IF k = 1
                  THEN Matrix(Extent(tensor_ref, 0),
                              [c \in 1..SVD_rank |->
                                  IF c <= Extent(tensor_ref, 0) THEN ZeroCol ELSE RandCol])
                  ELSE IF symmetries[k] = k - 1
                       THEN SVDFactor(Extent(tensor_ref, k - 1), SVD_rank)
                       ELSE EmptyFactor]
    IN  GuessNormalize(F0 \o <<Vector(SVD_rank, LamCol)>>, 1)

\* build(...), single-tensor engine, first time with SVD_initial_guess: the
\* guess is built and optimized with ALS(SVD_rank, ...).
BuildGuessALS ==
    /\ pc = "build"
    /\ engine = "ALS"
    /\ BuildGuessCond
    /\ \E kernel_ok \in BOOLEAN :
          IF bld.SVD_rank = 0
          THEN /\ Throw("SVD_rank")
               /\ UNCHANGED <<A, als, leftTimesRight>>
          ELSE IF ~kernel_ok
          THEN /\ Throw("kernel")
               /\ UNCHANGED <<A, als, leftTimesRight>>
          ELSE LET F == GuessALS(bld.SVD_rank)
               IN  /\ A' = F
                   /\ als' = ALSLocals(bld.SVD_rank, bld.max_als, bld.direct, "build_guess")
                   /\ obs' = ObsALS(obs, F)
                   /\ leftTimesRight' = ALSResetCache
                   /\ pc' = "als"
    /\ UNCHANGED <<engineConst, refs, num_ALS, lastLeft, dims, op, pals, bld, kernel>>

\* std::vector<ord_t> TRdims(ndim): the left extents go to i - 1, the right
\* extents to i + ndimR - 2; a write at an index >= ndim is outside the vector.
TRdimsOverflow == \E i \in 1..(ndimR - 1) : i + ndimR - 2 >= ndim

\* The indices of TRdims the two loops write, in the order of the writes.
TRdimsWrites ==
    [i \in 1..(ndimL - 1) |-> i - 1] \o [i \in 1..(ndimR - 1) |-> i + ndimR - 2]

TRdims ==
    [k \in 1..ndim |->
        IF \E i \in 1..(ndimR - 1) : i + ndimR - 2 = k - 1
        THEN Extent(tensor_ref_right, k - ndimR + 1)
        ELSE IF k <= ndimL - 1 THEN Extent(tensor_ref_left, k) ELSE 0]

trLsize == Size(tensor_ref_left) \div Extent(tensor_ref_left, 0)
trRsize == Size(tensor_ref_right) \div Extent(tensor_ref_right, 0)

\* The SVD initial guess of the two-tensor engine: every mode gets the
\* singular vectors of the materialized tensor and is normalized.
GuessDF(SVD_rank) ==
    [k \in 1..ndim |-> normCol(SVDFactor(TRdims[k], SVD_rank))]
        \o <<Vector(SVD_rank, LamCol)>>


\* tensor_ref_left.resize(TRLrange); tensor_ref_right.resize(TRRrange);
build_restore(R, reshaped) ==
    Resize(reshaped, R)

\* build(...), two-tensor engine, first time with SVD_initial_guess: both
\* reference tensors are reshaped to matrices, multiplied, and reshaped back.
BuildGuessDF ==
    /\ pc = "build"
    /\ engine = "DF"
    /\ BuildGuessCond
    /\ \E gemm_ok \in BOOLEAN, kernel_ok \in BOOLEAN, overflow_ok \in BOOLEAN :
          LET L2 == Resize(tensor_ref_left, <<Extent(tensor_ref_left, 0), trLsize>>)
              R2 == Resize(tensor_ref_right, <<Extent(tensor_ref_right, 0), trRsize>>)
          IN  IF bld.SVD_rank = 0
              THEN /\ Throw("SVD_rank")
                   /\ UNCHANGED <<A, als, leftTimesRight, tensor_ref_left, tensor_ref_right>>
              ELSE IF TRdimsOverflow /\ ~overflow_ok
              THEN /\ Throw("memory")
                   /\ UNCHANGED <<A, als, leftTimesRight, tensor_ref_left, tensor_ref_right>>
              ELSE IF ~(gemm_ok /\ Extent(tensor_ref_left, 0) = Extent(tensor_ref_right, 0))
              THEN /\ Throw("gemm")
                   /\ tensor_ref_left' = L2
                   /\ tensor_ref_right' = R2
                   /\ UNCHANGED <<A, als, leftTimesRight>>
              ELSE IF ~kernel_ok
              THEN /\ Throw("kernel")
                   /\ tensor_ref_left' = build_restore(tensor_ref_left.range, L2)
                   /\ tensor_ref_right' = build_restore(tensor_ref_right.range, R2)
                   /\ UNCHANGED <<A, als, leftTimesRight>>
              ELSE LET F == GuessDF(bld.SVD_rank)
                   IN  /\ tensor_ref_left' = build_restore(tensor_ref_left.range, L2)
                       /\ tensor_ref_right' = build_restore(tensor_ref_right.range, R2)
                       /\ A' = F
                       /\ als' = ALSLocals(bld.SVD_rank, bld.max_als, TRUE, "build_guess")
                       /\ obs' = ObsALS(obs, F)
                       /\ leftTimesRight' = ALSResetCache
                       /\ pc' = "als"
    /\ UNCHANGED <<engineConst, tensor_ref, size, num_ALS, lastLeft, dims, op, pals, bld, kernel>>

\* for (i = A.empty() ? 0 : A.at(0).extent(1); i < rank; i += step): one
\* evaluation of the loop condition, and of the loop body when it holds; when
\* it does not hold build returns to its caller.
BuildFor ==
    /\ \/ pc = "build" /\ ~BuildGuessCond
       \/ pc = "build_for"
    /\ LET i == IF pc = "build"
                THEN IF A = <<>> THEN 0 ELSE Cols(At(A, 0))
                ELSE bld.i
       IN  IF i < bld.rank
           THEN LET rank_new == i + 1
                    F == BuildGrow(A, 0, i, rank_new) \o <<Vector(rank_new, LamCol)>>
                IN  /\ A' = F
                    /\ bld' = [bld EXCEPT !.i = i, !.opt_in_for_loop = TRUE]
                    /\ als' = ALSLocals(rank_new, bld.max_als,
                                        engine = "DF" \/ bld.direct, "build_step")
                    /\ obs' = ObsALS(obs, F)
                    /\ leftTimesRight' = ALSResetCache
                    /\ pc' = "als"
                    /\ UNCHANGED pals
           ELSE /\ bld' = [bld EXCEPT !.i = i]
                /\ IF bld.ret = "pals"
                   THEN /\ pals' = [pals EXCEPT !.count = @ + 1]
                        /\ pc' = "pals"
                   ELSE /\ pc' = "returned"
                        /\ UNCHANGED pals
                /\ UNCHANGED <<A, als, obs, leftTimesRight>>
    /\ UNCHANGED <<engineConst, refs, num_ALS, lastLeft, dims, op, kernel>>

\* build(rank, converge_test, direct, max_als, calculate_epsilon, step,
\* epsilon, SVD_initial_guess, SVD_rank, fast_pI) entered on its own.
build ==
    /\ pc = "idle"
    /\ \E rank \in 1..MaxRank, step \in 1..2, SVD_initial_guess \in BOOLEAN,
          SVD_rank \in 0..1, max_als \in {0, MaxCap}, direct \in BOOLEAN,
          eps \in EpsilonModes :
          /\ op' = [name |-> "build", max_als |-> max_als, direct |-> direct,
                    calculate_epsilon |-> eps[1], FitCheck |-> eps[2],
                    epsilon |-> "caller"]
          /\ bld' = [rank |-> rank, step |-> step,
                     SVD_initial_guess |-> SVD_initial_guess, SVD_rank |-> SVD_rank,
                     max_als |-> max_als, direct |-> direct, i |-> 0,
                     opt_in_for_loop |-> FALSE, ret |-> "build"]
    /\ pc' = "build"
    /\ obs' = [obs EXCEPT !.entry = RefState]
    /\ UNCHANGED <<engineConst, refs, A, num_ALS, cache, pals, als, kernel>>


\* ------------------------------------------------- two-tensor engine direct
\* bool leftTensor = n < (ndimL - 1)
leftTensor(n) == n < ndimL - 1

\* Position of mode n inside the reference tensor that holds it, not counting
\* the connecting dimension.
nInTensor(n) == IF leftTensor(n) THEN n ELSE n - ndimL + 1



\* if (lastLeft != leftTensor)
Recompute(n) ==
    lastLeft # leftTensor(n)

\* The factor matrices of the side that does not hold mode n.
OtherSide(F, n) ==
    [k \in 1..ndim |-> IF leftTensor(k - 1) = leftTensor(n) THEN EmptyFactor ELSE F[k]]

\* for (i = 1; i < tensor_ref.rank(); ++i) dims[i - 1] = tensor_ref.extent(i);
\* dims[dims.size() - 1] = rank;
DimsOf(t, rank) ==
    [k \in 1..Rank(t) |-> IF k = Rank(t) THEN rank ELSE t.range[k + 1]]

\* LH_size after the Hadamard loop: contract_tensor.size() / rank divided by
\* dims[contract_dim] for contract_dim = ndimCurr - 2 down to 1.
RECURSIVE LHAfter(_, _, _)
LHAfter(LH, d, contract_dim) ==
    IF contract_dim < 1 THEN LH
    ELSE LHAfter(LH \div At(d, contract_dim), d, contract_dim - 1)

\* The row count of the matrix that direct(n) hands to the solve.
DFResultRows(LT, d, rank, n) ==
    LET ndimCurr == Len(d)
    IN  IF nInTensor(n) # 0 THEN At(d, nInTensor(n))
        ELSE IF ndimCurr = 2 THEN LT.range[1]
        ELSE LHAfter(Prod(LT.range) \div rank, d, ndimCurr - 2)

\* direct(n, rank, ...) of the two-tensor engine.
DFDirect ==
    /\ pc = "als_mode"
    /\ engine = "DF"
    /\ At(symmetries, als.i) = als.i
    /\ LET n == als.i
           rank == als.rank
           isLeft == leftTensor(n)
           other == IF isLeft THEN tensor_ref_right ELSE tensor_ref_left
           side == IF isLeft THEN tensor_ref_left ELSE tensor_ref_right
           contract_dim_inter == IF isLeft THEN ndim - 1 ELSE ndimL - 2
           contract_size == Extent(other, Rank(other) - 1)
           other2 == Resize(other, <<Size(other) \div contract_size, contract_size>>)
           LH_size == Size(side) \div Extent(side, 0)
           side2 == Resize(side, <<Extent(side, 0), LH_size>>)
           conforms == /\ Rows(At(A, contract_dim_inter)) = contract_size
                       /\ Cols(At(A, contract_dim_inter)) = rank
           conforms2 == Extent(side, 0) = Extent(other, 0)
           first == \A k \in 1..Len(obs.order) : symmetries[obs.order[k] + 1] # obs.order[k]
           prev == IF first THEN -1
                   ELSE LET last == CHOOSE k \in 1..Len(obs.order) :
                                       /\ symmetries[obs.order[k] + 1] = obs.order[k]
                                       /\ \A m \in (k + 1)..Len(obs.order) :
                                             symmetries[obs.order[m] + 1] # obs.order[m]
                        IN  IF leftTensor(obs.order[last]) THEN 1 ELSE 0
           ghost(rec) == [n |-> n, recomputed |-> rec, first |-> first, prev |-> prev]
           SetRef(o, s) == /\ tensor_ref_left' = IF isLeft THEN s ELSE o
                           /\ tensor_ref_right' = IF isLeft THEN o ELSE s
           Finish(LT, d, fresh, rec) ==
               /\ A' = WriteBack(A, n, Matrix(DFResultRows(LT, d, rank, n),
                                          Rep(rank, Tag(IF fresh THEN "als" ELSE "stale",
                                                        1, num_ALS, n))))
               /\ obs' = [obs EXCEPT !.order = Append(@, n), !.upd = ghost(rec)]
               /\ ModeDone(n)
       IN  \E gemm1_ok \in BOOLEAN, gemm2_ok \in BOOLEAN :
              IF Recompute(n)
              THEN /\ lastLeft' = isLeft
                   /\ IF ~(gemm1_ok /\ conforms)
                      THEN /\ SetRef(other2, side)
                           /\ dims' = Rep(Rank(side), 0)
                           /\ pc' = "failed"
                           /\ obs' = [obs EXCEPT !.failure = "gemm", !.upd = ghost(TRUE)]
                           /\ UNCHANGED <<A, als, leftTimesRight>>
                      ELSE IF ~(gemm2_ok /\ conforms2)
                      THEN /\ SetRef(direct_restore(other.range, other2), side2)
                           /\ dims' = Rep(Rank(side), 0)
                           /\ leftTimesRight' = [range |-> <<LH_size, rank>>,
                                                 col |-> Rep(rank, ZeroCol), from |-> <<>>]
                           /\ pc' = "failed"
                           /\ obs' = [obs EXCEPT !.failure = "gemm", !.upd = ghost(TRUE)]
                           /\ UNCHANGED <<A, als>>
                      ELSE LET LT == [range |-> <<LH_size, rank>>,
                                      col |-> Rep(rank, Tag("ltr", 0, num_ALS, n)),
                                      from |-> OtherSide(A, n)]
                               d == DimsOf(side, rank)
                           IN  /\ SetRef(direct_restore(other.range, other2),
                                         direct_restore(side.range, side2))
                               /\ dims' = d
                               /\ leftTimesRight' = LT
                               /\ Finish(LT, d, TRUE, TRUE)
              ELSE /\ gemm1_ok /\ gemm2_ok
                   /\ Finish(leftTimesRight, dims,
                             leftTimesRight.from = OtherSide(A, n), FALSE)
                   /\ UNCHANGED <<tensor_ref_left, tensor_ref_right, cache>>
    /\ UNCHANGED <<engineConst, tensor_ref, size, num_ALS, op, pals, bld, kernel>>


\* ------------------------------------------------------ compression front-ends
MaxCompress == 2

Min(a, b) == IF a < b THEN a ELSE b

\* tucker_compression(tensor_ref, tcutSVD, transforms): the tensor handed in
\* is replaced by the compressed core, mode i keeping k[i] <= extent(i)
\* singular vectors; transforms[i] is extent(i) x k[i].
tucker_compression(t, k) ==
    Tensor([i \in 1..Rank(t) |-> Min(t.range[i], k)], "core")

\* randomized_decomposition(tensor_ref, transforms, desired_compression_rank,
\* oversampl, powerit): the tensor handed in is replaced by the projected core.
randomized_decomposition(t, desired_compression_rank) ==
    Tensor([i \in 1..Rank(t) |-> Min(t.range[i], desired_compression_rank)], "core")

\* build_random of the single-tensor engine: a random normalized factor per
\* independent mode, a copy of the aliased factor otherwise, pushed onto A.
RECURSIVE BuildRandomALS(_, _, _, _)
BuildRandomALS(F, t, i, rank) ==
    IF i >= ndim THEN F \o <<Vector(rank, ZeroCol)>>
    ELSE IF At(symmetries, i) # i
         THEN BuildRandomALS(F \o <<At(F, At(symmetries, i))>>, t, i + 1, rank)
         ELSE LET F1 == F \o <<Matrix(Extent(t, i), Rep(rank, RandCol))>>
              IN  BuildRandomALS(SetAt(F1, i, normCol(At(F1, i))), t, i + 1, rank)

\* compute_rank_random(rank, ...): a rank that is not positive is rejected,
\* otherwise build_random(rank, ...) builds the guess and runs ALS on it.
compute_rank_random(core, rank, max_als, direct) ==
    IF rank <= 0
    THEN /\ pc' = "failed"
         /\ obs' = [obs EXCEPT !.entry = RefState, !.failure = "rank"]
         /\ UNCHANGED <<A, als>>
    ELSE LET F == BuildRandomALS(A, core, 0, rank)
         IN  /\ A' = F
             /\ als' = ALSLocals(rank, max_als, direct, "random")
             /\ obs' = ObsALS([obs EXCEPT !.entry = RefState], F)
             /\ pc' = "als"

\* compress_compute_tucker(tcutSVD, converge_test, rank, direct, ..., max_als)
compress_compute_tucker ==
    /\ pc = "idle"
    /\ engine = "ALS"
    /\ \E k \in 1..MaxCompress, rank \in 0..MaxRank, max_als \in {0, MaxCap},
          direct \in BOOLEAN, eps \in EpsilonModes :
          LET core == tucker_compression(tensor_ref, k)
          IN  /\ op' = [name |-> "compress_compute_tucker", max_als |-> max_als,
                        direct |-> direct, transforms |-> tensor_ref.range,
                        calculate_epsilon |-> eps[1], FitCheck |-> eps[2],
                        epsilon |-> "sentinel"]
              /\ tensor_ref' = core
              /\ size' = Size(core)
              /\ compute_rank_random(core, rank, max_als, direct)
    /\ UNCHANGED <<engineConst, tensor_ref_left, tensor_ref_right, num_ALS, cache,
                   pals, bld, kernel>>

\* compress_compute_rand(desired_compression_rank, converge_test, oversampl,
\* powerit, rank, direct, ..., max_als)
compress_compute_rand ==
    /\ pc = "idle"
    /\ engine = "ALS"
    /\ \E desired_compression_rank \in 1..MaxCompress, rank \in 0..MaxRank,
          max_als \in {0, MaxCap}, direct \in BOOLEAN, eps \in EpsilonModes :
          LET core == randomized_decomposition(tensor_ref, desired_compression_rank)
          IN  /\ op' = [name |-> "compress_compute_rand", max_als |-> max_als,
                        direct |-> direct, transforms |-> tensor_ref.range,
                        calculate_epsilon |-> eps[1], FitCheck |-> eps[2],
                        epsilon |-> "sentinel"]
              /\ tensor_ref' = core
              /\ size' = Size(core)
              /\ compute_rank_random(core, rank, max_als, direct)
    /\ UNCHANGED <<engineConst, tensor_ref_left, tensor_ref_right, num_ALS, cache,
                   pals, bld, kernel>>

\* scale factor matrices: A[i] = transforms[i] * A[i] for every mode, then
\* return epsilon.
ScaleFactors ==
    /\ pc = "scale"
    /\ \E gemm_ok \in BOOLEAN :
          IF gemm_ok
          THEN /\ A' = [k \in 1..Len(A) |->
                           IF k <= ndim
                           THEN Matrix(op.transforms[k],
                                       Rep(Cols(A[k]), Tag("scaled", 0, num_ALS, k - 1)))
                           ELSE A[k]]
               /\ pc' = "returned"
               /\ UNCHANGED obs
          ELSE /\ Throw("gemm")
               /\ UNCHANGED A
    /\ UNCHANGED <<engineConst, refs, num_ALS, cache, op, pals, bld, als, kernel>>

\* ------------------------------------------------------------------- engine
\* The caller makes a further call on the engine after a completed one: the
\* members (A, num_ALS, the reference tensors, the cache) are what the
\* completed call left, the locals of the completed call are gone.
NextCall ==
    /\ pc = "returned"
    /\ ~obs.again
    /\ pc' = "idle"
    /\ obs' = [ObsInit EXCEPT !.again = TRUE]
    /\ op' = NoLocals
    /\ pals' = NoLocals
    /\ bld' = NoLocals
    /\ als' = NoLocals
    /\ UNCHANGED <<engineConst, refs, A, num_ALS, cache, kernel>>

Next ==
    \/ compute_PALS
    \/ PALSFirstPanel
    \/ PALSGrowPanel
    \/ PALSReturn
    \/ build
    \/ BuildGuessALS
    \/ BuildGuessDF
    \/ BuildFor
    \/ compress_compute_tucker
    \/ compress_compute_rand
    \/ ScaleFactors
    \/ ALSSweepStart
    \/ ALSCopyAlias
    \/ ALSDirect
    \/ ALSUpdateKRP
    \/ DFDirect
    \/ ALSConverge
    \/ ALSReturn

Spec == Init /\ [][Next]_vars

\* Sequences of two calls on one engine, for a reference tensor of each order
\* and a reference pair.
SeqRanges == {<<2, 3>>, <<2, 2, 2>>}
SeqPairs == {<< <<2, 2>>, <<2, 2>> >>}

InitSeq ==
    /\ Init
    /\ \/ engine = "ALS" /\ tensor_ref.range \in SeqRanges
       \/ engine = "DF" /\ <<tensor_ref_left.range, tensor_ref_right.range>> \in SeqPairs

NextSeq == Next \/ NextCall

SpecSeq == InitSeq /\ [][NextSeq]_vars


\* ------------------------------------------------------------ kernel layer
\* Dense row-major buffers of integers; every index below is a flat offset
\* into a buffer, as in the pointer walks of the two direct routines.
KMaxRank == 2
KMaxSeed == 1

Buf(range, data) == [range |-> range, data |-> data]
NoBuf == Buf(<<>>, <<>>)

RECURSIVE SumSeq(_)
SumSeq(s) == IF s = <<>> THEN 0 ELSE Head(s) + SumSeq(Tail(s))

\* gemm(transA, CblasNoTrans, 1.0, a, b, 0.0, c) for a of ar x ac and b with
\* bn columns: c = op(a) * b.
gemm(transA, a, ar, ac, b, bn) ==
    LET m == IF transA THEN ac ELSE ar
        k == IF transA THEN ar ELSE ac
    IN  [t \in 1..(m * bn) |->
            LET i == (t - 1) \div bn
                j == (t - 1) % bn
            IN  SumSeq([l \in 1..k |->
                    (IF transA THEN At(a, (l - 1) * ac + i) ELSE At(a, i * ac + (l - 1)))
                        * At(b, (l - 1) * bn + j)])]

\* Tensor::resize to a range of newlen elements: the elements that exist are
\* kept in place, elements added by a resize that grows the buffer have no
\* specified value (fill).
resize(data, newlen, fill) ==
    [t \in 1..newlen |-> IF t <= Len(data) THEN data[t] ELSE fill]

\* The while (contract_dim > 0) loop of CP_ALS::direct.
RECURSIVE direct_walk(_, _, _, _, _)
direct_walk(temp, LH_size, pseudo_rank, contract_dim, c) ==
    IF contract_dim <= 0 THEN temp
    ELSE LET idx2 == At(c.dimensions, contract_dim)
             idx1 == LH_size \div idx2
             t3 == resize(temp, idx1 * idx2 * pseudo_rank, c.fill)
             a == At(c.F, IF c.last_dim THEN contract_dim + 1 ELSE contract_dim)
             LH_next == LH_size \div At(c.ext, contract_dim)
             rank == c.rank
         IN  IF c.n = contract_dim
             THEN direct_walk(t3, LH_next, pseudo_rank * c.offset_dim, contract_dim - 1, c)
             ELSE IF contract_dim > c.n
             THEN direct_walk(
                      [t \in 1..(idx1 * pseudo_rank) |->
                          LET i == (t - 1) \div rank
                              r == (t - 1) % rank
                          IN  IF i < idx1
                              THEN SumSeq([j \in 1..idx2 |->
                                       At(t3, i * (idx2 * rank) + (j - 1) * rank + r)
                                           * At(a, (j - 1) * rank + r)])
                              ELSE 0],
                      LH_next, pseudo_rank, contract_dim - 1, c)
             ELSE direct_walk(
                      [t \in 1..(idx1 * pseudo_rank) |->
                          LET i == (t - 1) \div pseudo_rank
                              kr == (t - 1) % pseudo_rank
                              r == kr % rank
                          IN  SumSeq([j \in 1..idx2 |->
                                  At(t3, i * (idx2 * pseudo_rank) + (j - 1) * pseudo_rank + kr)
                                      * At(a, (j - 1) * rank + r)])],
                      LH_next, pseudo_rank, contract_dim - 1, c)

\* CP_ALS::direct(n, rank, ...) up to the matrix handed to
\* pseudoinverse_helper: ext and T are the reference tensor, F the factors.
direct(ext, T, F, n, rank, fill) ==
    LET N == Len(ext)
        sz == Prod(ext)
        last_dim == n = N - 1
        contract_dim == IF last_dim THEN 0 ELSE N - 1
        dimensions == IF last_dim THEN Tail(ext) ELSE SubSeq(ext, 1, N - 1)
        e == At(ext, contract_dim)
        temp0 == IF last_dim
                 THEN gemm(TRUE, T, e, sz \div e, At(F, contract_dim), rank)
                 ELSE gemm(FALSE, T, sz \div e, e, At(F, contract_dim), rank)
        n1 == IF last_dim THEN N - 2 ELSE n
        c == [ext |-> ext, dimensions |-> dimensions, n |-> n1, last_dim |-> last_dim,
              rank |-> rank, offset_dim |-> At(ext, n), F |-> F, fill |-> fill]
        temp1 == direct_walk(temp0, sz \div e, rank, N - 2, c)
    IN  IF n1 # 0
        THEN LET idx1 == At(dimensions, 0)
                 idx2 == At(dimensions, n1)
                 t3 == resize(temp1, idx1 * idx2 * rank, fill)
                 a == At(F, IF last_dim THEN 1 ELSE 0)
             IN  Buf(<<idx2, rank>>,
                     [t \in 1..(idx2 * rank) |->
                         LET j == (t - 1) \div rank
                             r == (t - 1) % rank
                         IN  SumSeq([i \in 1..idx1 |->
                                 At(a, (i - 1) * rank + r)
                                     * At(t3, (i - 1) * (idx2 * rank) + j * rank + r)])])
        ELSE Buf(<<Len(temp1) \div rank, rank>>, temp1)

\* flatten(tensor_ref, n): the ext[n] x (size / ext[n]) matrix whose row is the
\* index of mode n and whose column runs over the other modes in row-major
\* order.
flatten(ext, T, n) ==
    LET en == At(ext, n)
        stride == Prod(SubSeq(ext, n + 2, Len(ext)))
        cols == Prod(ext) \div en
    IN  [t \in 1..(en * cols) |->
            LET i == (t - 1) \div cols
                c == (t - 1) % cols
            IN  At(T, (c \div stride) * en * stride + i * stride + (c % stride))]

\* A product whose rows run over the rows of B first: row j * A_row + i.
khatri_rao_product_by_B(a, A_row, b, B_row, KRP_dim) ==
    [t \in 1..(A_row * B_row * KRP_dim) |->
        LET j == (t - 1) \div (A_row * KRP_dim)
            i == ((t - 1) \div KRP_dim) % A_row
            k == (t - 1) % KRP_dim
        IN  At(a, i * KRP_dim + k) * At(b, j * KRP_dim + k)]

\* khatri_rao_product(A, B, AB): row i * B_row + j of AB is the elementwise
\* product of row i of A and row j of B.
khatri_rao_product(a, A_row, b, B_row, KRP_dim) ==
    [t \in 1..(A_row * B_row * KRP_dim) |->
        LET i == (t - 1) \div (B_row * KRP_dim)
            j == ((t - 1) \div KRP_dim) % B_row
            k == (t - 1) % KRP_dim
        IN  At(a, i * KRP_dim + k) * At(b, j * KRP_dim + k)]

\* generate_KRP(n, rank, true): the Khatri-Rao product of all factors but
\* A[n], taken in increasing mode order.
RECURSIVE generate_KRP(_, _, _, _, _, _)
generate_KRP(ext, F, n, rank, k, acc) ==
    IF k >= Len(ext) THEN acc
    ELSE IF k = n THEN generate_KRP(ext, F, n, rank, k + 1, acc)
    ELSE generate_KRP(ext, F, n, rank, k + 1,
             khatri_rao_product(acc, Len(acc) \div rank, At(F, k), At(ext, k), rank))

\* update_w_KRP(n, rank, ...) up to the matrix handed to pseudoinverse_helper:
\* gemm(flatten(tensor_ref, n), generate_KRP(n, rank, true)).
update_w_KRP(ext, T, F, n, rank) ==
    Buf(<<At(ext, n), rank>>,
        gemm(FALSE, flatten(ext, T, n), At(ext, n), Prod(ext) \div At(ext, n),
             generate_KRP(ext, F, n, rank, 0, Rep(rank, 1)), rank))


\* The Hadamard loop over the side that does not hold n, in the recompute
\* block of CP_DF_ALS::direct: the extents ext[ndimCurr - 2 - i] are
\* contracted with the factors A[contract_dim_inter], A[contract_dim_inter - 1], ...
RECURSIVE df_other_walk(_, _, _, _, _, _, _)
df_other_walk(contract_tensor, sizeCurr, i, contract_dim_inter, ext, F, rank) ==
    IF i >= Len(ext) - 2 THEN contract_tensor
    ELSE LET contract_size == At(ext, Len(ext) - 2 - i)
             idx1 == sizeCurr \div contract_size
             a == At(F, contract_dim_inter)
         IN  df_other_walk(
                 [t \in 1..(idx1 * rank) |->
                     LET j == (t - 1) \div rank
                         r == (t - 1) % rank
                     IN  SumSeq([k \in 1..contract_size |->
                             At(contract_tensor, j * (contract_size * rank) + (k - 1) * rank + r)
                                 * At(a, (k - 1) * rank + r)])],
                 idx1, i + 1, contract_dim_inter - 1, ext, F, rank)

\* j_times_cont_rank += k_times_rank in the branch taken after the mode of
\* interest was passed: k_times_rank has advanced by rank per k.
df_stride(contract_size, pseudo_rank, rank) ==
    contract_size * rank

\* The Hadamard loop over the side that holds n, after the recompute block.
\* w = [contract_tensor, LH_size, pseudo_rank, offset].
RECURSIVE df_side_walk(_, _, _, _, _)
df_side_walk(w, i, contract_dim, a_dim, c) ==
    IF i >= c.ndimCurr - 2 THEN w
    ELSE LET contract_size == At(c.dims, contract_dim)
             LH_size == w.LH_size \div contract_size
             pseudo_rank == w.pseudo_rank
             rank == c.rank
             a == At(c.F, a_dim)
             ct == w.contract_tensor
         IN  IF c.nInTensor = contract_dim
             THEN df_side_walk([w EXCEPT !.LH_size = LH_size,
                                         !.pseudo_rank = pseudo_rank * contract_size,
                                         !.offset = contract_size],
                               i + 1, contract_dim - 1, a_dim - 1, c)
             ELSE IF contract_dim > c.nInTensor
             THEN df_side_walk(
                      [w EXCEPT !.LH_size = LH_size,
                                !.contract_tensor =
                          [t \in 1..(LH_size * pseudo_rank) |->
                              LET j == (t - 1) \div pseudo_rank
                                  r == (t - 1) % pseudo_rank
                              IN  SumSeq([k \in 1..contract_size |->
                                      At(ct, j * (contract_size * pseudo_rank)
                                                 + (k - 1) * pseudo_rank + r)
                                          * At(a, (k - 1) * pseudo_rank + r)])]],
                      i + 1, contract_dim - 1, a_dim - 1, c)
             ELSE df_side_walk(
                      [w EXCEPT !.LH_size = LH_size,
                                !.contract_tensor =
                          [t \in 1..(LH_size * pseudo_rank) |->
                              LET j == (t - 1) \div pseudo_rank
                                  lr == (t - 1) % pseudo_rank
                                  r == lr % rank
                              IN  SumSeq([k \in 1..contract_size |->
                                      At(ct, j * df_stride(contract_size, pseudo_rank, rank)
                                                 + (k - 1) * pseudo_rank + lr)
                                          * At(a, (k - 1) * rank + r)])]],
                      i + 1, contract_dim - 1, a_dim - 1, c)

\* CP_DF_ALS::direct(n, rank, ...) with lastLeft != leftTensor, up to the
\* matrix handed to pseudoinverse_helper. lext, L and rext, R are the left and
\* the right reference tensor, F the factors of the modes 0..ndim-1.
df_direct(lext, L, rext, R, F, n, rank) ==
    LET nL == Len(lext)
        nd == nL + Len(rext) - 2
        isLeft == n < nL - 1
        oext == IF isLeft THEN rext ELSE lext
        O == IF isLeft THEN R ELSE L
        sext == IF isLeft THEN lext ELSE rext
        S == IF isLeft THEN L ELSE R
        ndimO == Len(oext)
        contract_size == At(oext, ndimO - 1)
        sizeCurr == Prod(oext) \div contract_size
        contract_dim_inter == IF isLeft THEN nd - 1 ELSE nL - 2
        K == df_other_walk(
                 gemm(FALSE, O, sizeCurr, contract_size, At(F, contract_dim_inter), rank),
                 sizeCurr, 0, contract_dim_inter - 1, oext, F, rank)
        LH0 == Prod(sext) \div At(sext, 0)
        leftTimesRightK == gemm(TRUE, S, At(sext, 0), LH0, K, rank)
        ndimCurr == Len(sext)
        c == [ndimCurr |-> ndimCurr, dims |-> Tail(sext) \o <<rank>>, rank |-> rank,
              nInTensor |-> IF isLeft THEN n ELSE n - nL + 1, F |-> F]
        w == df_side_walk([contract_tensor |-> leftTimesRightK,
                           LH_size |-> Len(leftTimesRightK) \div rank,
                           pseudo_rank |-> rank, offset |-> 0],
                          0, ndimCurr - 2,
                          IF isLeft THEN ndimCurr - 2 ELSE nd - 1, c)
        a_dim == (IF isLeft THEN ndimCurr - 2 ELSE nd - 1) - (ndimCurr - 2)
    IN  IF c.nInTensor # 0
        THEN LET a == At(F, a_dim)
             IN  Buf(<<w.offset, rank>>,
                     [t \in 1..(w.offset * rank) |->
                         LET j == (t - 1) \div rank
                             r == (t - 1) % rank
                         IN  SumSeq([i \in 1..w.LH_size |->
                                 At(a, (i - 1) * rank + r)
                                     * At(w.contract_tensor,
                                          (i - 1) * (w.offset * rank) + j * rank + r)])])
        ELSE Buf(<<w.LH_size, rank>>, w.contract_tensor)

\* The per-mode update of the materialized tensor T = left^T right: T is
\* formed by one matrix product over the connecting dimension and the update
\* is its mode-n flattening times the Khatri-Rao product of the other factors.
df_reference(lext, L, rext, R, F, n, rank) ==
    LET trL == Prod(lext) \div At(lext, 0)
        trR == Prod(rext) \div At(rext, 0)
        text == Tail(lext) \o Tail(rext)
        T == gemm(TRUE, L, At(lext, 0), trL, R, trR)
    IN  update_w_KRP(text, T, F, n, rank)


\* Inputs of the kernel layer: extents of order 3 and 4, every mode, ranks
\* 1..KMaxRank, and element values derived from a seed.
KShapes == {<<2, 2, 2>>, <<2, 1, 3>>, <<1, 1, 2, 1>>, <<1, 1, 1, 2>>, <<2, 1, 2, 2>>}

KPairs == {<< <<2, 2>>, <<2, 2>> >>, << <<2, 2, 2>>, <<2, 3>> >>,
           << <<1, 2, 1, 2>>, <<1, 2>> >>, << <<2, 2>>, <<2, 2, 1, 2>> >>}

KTensor(ext, seed) == [t \in 1..Prod(ext) |-> 1 + ((t * t + seed) % 3)]

KFactors(ext, rank, seed) ==
    [k \in 1..Len(ext) |-> [t \in 1..(ext[k] * rank) |-> 1 + ((t + k + seed) % 2)]]

KOutInit == [direct |-> NoBuf, ref |-> NoBuf, resizes |-> <<>>]

InitKernel ==
    /\ engine = "kernel"
    /\ ndim = 0
    /\ ndimL = 0
    /\ ndimR = 0
    /\ symmetries = <<>>
    /\ tensor_ref = NoTensor
    /\ tensor_ref_left = NoTensor
    /\ tensor_ref_right = NoTensor
    /\ size = 0
    /\ A = <<>>
    /\ num_ALS = 0
    /\ lastLeft = FALSE
    /\ leftTimesRight = EmptyFactor
    /\ dims = <<>>
    /\ pc = "kernel"
    /\ op = NoLocals
    /\ pals = NoLocals
    /\ bld = NoLocals
    /\ als = NoLocals
    /\ obs = ObsInit
    /\ kout = KOutInit
    /\ \E rank \in 1..KMaxRank, seed \in 0..KMaxSeed :
          \/ \E ext \in KShapes : \E n \in 0..(Len(ext) - 1) :
                kin = [engine |-> "ALS", ext |-> ext, T |-> KTensor(ext, seed),
                       F |-> KFactors(ext, rank, seed), n |-> n, rank |-> rank]
          \/ \E p \in KPairs : \E n \in 0..(Len(p[1]) + Len(p[2]) - 3) :
                kin = [engine |-> "DF", lext |-> p[1], L |-> KTensor(p[1], seed),
                       rext |-> p[2], R |-> KTensor(p[2], seed + 1),
                       F |-> KFactors(Tail(p[1]) \o Tail(p[2]), rank, seed),
                       n |-> n, rank |-> rank]

KernelFrame ==
    UNCHANGED <<engineConst, refs, A, num_ALS, cache, pc, op, pals, bld, als, obs, kin>>

\* The temp.resize calls of CP_ALS::direct, each as <<elements asked for,
\* elements temp holds>>: those of the while (contract_dim > 0) loop, then the
\* one before the contraction of mode 0 (if n != 0).
RECURSIVE direct_walk_resizes(_, _, _, _, _)
direct_walk_resizes(held, LH_size, pseudo_rank, contract_dim, c) ==
    IF contract_dim <= 0
    THEN IF c.n # 0
         THEN <<<<At(c.dimensions, 0) * At(c.dimensions, c.n) * c.rank, held>>>>
         ELSE <<>>
    ELSE LET idx2 == At(c.dimensions, contract_dim)
             idx1 == LH_size \div idx2
             asked == idx1 * idx2 * pseudo_rank
             LH_next == LH_size \div At(c.ext, contract_dim)
         IN  <<<<asked, held>>>> \o
             (IF c.n = contract_dim
              THEN direct_walk_resizes(asked, LH_next, pseudo_rank * c.offset_dim,
                                       contract_dim - 1, c)
              ELSE direct_walk_resizes(idx1 * pseudo_rank, LH_next, pseudo_rank,
                                       contract_dim - 1, c))

\* CP_ALS::direct(n, rank, ...) on a tensor of extents ext: temp starts as
\* Tensor(size / extent(contract_dim), rank).
direct_resizes(ext, n, rank) ==
    LET N == Len(ext)
        last_dim == n = N - 1
        LH_size == Prod(ext) \div At(ext, IF last_dim THEN 0 ELSE N - 1)
        c == [ext |-> ext,
              dimensions |-> IF last_dim THEN Tail(ext) ELSE SubSeq(ext, 1, N - 1),
              n |-> IF last_dim THEN N - 2 ELSE n, rank |-> rank,
              offset_dim |-> At(ext, n)]
    IN  direct_walk_resizes(LH_size * rank, LH_size, rank, N - 2, c)

\* CP_ALS::direct on the input; the elements a growing resize adds take an
\* unspecified value.
KernelDirect ==
    /\ pc = "kernel"
    /\ kin.engine = "ALS"
    /\ kout.direct = NoBuf
    /\ \E fill \in 0..1 :
          kout' = [kout EXCEPT !.direct = direct(kin.ext, kin.T, kin.F, kin.n, kin.rank, fill),
                               !.resizes = direct_resizes(kin.ext, kin.n, kin.rank)]
    /\ KernelFrame

\* CP_ALS::update_w_KRP on the input.
KernelKRP ==
    /\ pc = "kernel"
    /\ kin.engine = "ALS"
    /\ kout.ref = NoBuf
    /\ kout' = [kout EXCEPT !.ref = update_w_KRP(kin.ext, kin.T, kin.F, kin.n, kin.rank)]
    /\ KernelFrame

\* CP_DF_ALS::direct on the input.
KernelDFDirect ==
    /\ pc = "kernel"
    /\ kin.engine = "DF"
    /\ kout.direct = NoBuf
    /\ kout' = [kout EXCEPT !.direct =
                   df_direct(kin.lext, kin.L, kin.rext, kin.R, kin.F, kin.n, kin.rank)]
    /\ KernelFrame

\* The per-mode update of the materialized tensor for the input.
KernelDFReference ==
    /\ pc = "kernel"
    /\ kin.engine = "DF"
    /\ kout.ref = NoBuf
    /\ kout' = [kout EXCEPT !.ref =
                   df_reference(kin.lext, kin.L, kin.rext, kin.R, kin.F, kin.n, kin.rank)]
    /\ KernelFrame

NextKernel ==
    \/ KernelDirect
    \/ KernelKRP
    \/ KernelDFDirect
    \/ KernelDFReference

SpecKernel == InitKernel /\ [][NextKernel]_vars


\* ------------------------------------------------------------- properties
InALS == pc \in {"als", "als_mode", "als_test"}

IsAlias(i) == At(symmetries, i) # i

\* A sweep has just ended: the last mode was processed, or the convergence
\* test of a sweep has returned.
SweepEnded == pc = "als_test" \/ (pc = "als" /\ obs.sweeps > 0)

\* C1: at the end of every ALS sweep, in both engines, the factor of every
\* aliased mode i equals the factor of mode symmetries[i], also when that
\* mode is itself an alias.
SymmetryInvariant ==
    SweepEnded =>
        \A i \in 0..(ndim - 1) : IsAlias(i) => At(A, i) = At(A, At(symmetries, i))

\* A second sweep of the two-tensor engine has ended with an alias of an alias.
SymmetryInvariantWitness ==
    /\ pc = "als_test"
    /\ engine = "DF"
    /\ obs.sweeps = 2
    /\ \E i \in 0..(ndim - 1) : IsAlias(i) /\ IsAlias(At(symmetries, i))
    /\ \E i \in 0..(ndim - 1) : At(A, i) # At(obs.A0, i)

\* The modes 0..k-1 in increasing order.
InOrder(order) == order = [k \in 1..Len(order) |-> k - 1]

\* C2: in one ALS call with cap max_als >= 1 at least one and at most max_als
\* sweeps run, each sweep takes the modes 0..N-1 in increasing order, the
\* convergence test runs once per sweep and only after all N modes, no sweep
\* starts after a converged verdict, and num_ALS grows by the number of sweeps.
SweepProtocol ==
    /\ (InALS /\ als.max_als >= 1) =>
          /\ obs.sweeps = als.count
          /\ obs.sweeps <= als.max_als
          /\ num_ALS = obs.num0 + obs.sweeps
          /\ ~obs.lateSweep
          /\ InOrder(obs.order)
          /\ pc = "als_mode" =>
                /\ Len(obs.order) = als.i
                /\ als.i < ndim
                /\ obs.tests = obs.sweeps - 1
          /\ pc = "als_test" =>
                /\ Len(obs.order) = ndim
                /\ obs.tests = obs.sweeps - 1
          /\ pc = "als" =>
                /\ obs.tests = obs.sweeps
                /\ obs.sweeps > 0 => Len(obs.order) = ndim
    /\ (obs.alsReturned /\ als.max_als >= 1) =>
          /\ obs.sweeps >= 1
          /\ obs.sweeps <= als.max_als
          /\ obs.tests = obs.sweeps
          /\ num_ALS = obs.num0 + obs.sweeps

\* An ALS call has returned because the cap of two sweeps was reached.
SweepProtocolWitness ==
    /\ obs.alsReturned
    /\ als.max_als = 2
    /\ obs.sweeps = 2
    /\ ~als.is_converged
    /\ ndim >= 3

\* C3: when ALS is entered with max_als <= 0 no sweep is run, no factor
\* matrix is modified and the call does not return normally: a failure is
\* signalled.
NonPositiveCapRejected ==
    (obs.alsCalls > 0 /\ als.max_als <= 0) =>
        /\ obs.sweeps = 0
        /\ ~obs.alsReturned
        /\ InALS => A = obs.A0

\* The ranges of the caller's reference tensors.
RefRanges(r) == <<r[1].range, r[2].range, r[3].range>>

\* C4: whenever control has left a per-mode update or the SVD initial guess,
\* by normal return or by a failure of the contraction kernel, every
\* reference tensor has the range it had on entry.
ShapeRestored ==
    (pc # "idle" /\ op.name \in {"compute_PALS", "build"}) =>
        RefRanges(RefState) = RefRanges(obs.entry)

\* C5: after a public operation of the single-tensor engine has returned the
\* caller's tensor has the extents and the element values it had before.
ReferenceImmutable ==
    (pc = "returned" /\ engine = "ALS") => tensor_ref = obs.entry[1]

\* 1 for a mode of the left reference tensor, 0 for a mode of the right one.
SideOf(n) == IF leftTensor(n) THEN 1 ELSE 0

\* C6: in the two-tensor engine the cached intermediate is recomputed exactly
\* when the updated mode is the first updated mode of the sweep or lies on
\* another side than the previously updated mode.
SideCacheProtocol ==
    (engine = "DF" /\ obs.upd.n >= 0) =>
        (obs.upd.recomputed <=> (obs.upd.first \/ obs.upd.prev # SideOf(obs.upd.n)))

\* The largest extent among the modes of the decomposed tensor.
MaxModeExtent == MaxOf([j \in 1..ndim |-> ModeExtent(j - 1)])

\* floor(s * M) for the step s = RankStep[1] / RankStep[2].
StepColumns(RankStep, M) == (RankStep[1] * M) \div RankStep[2]

HasColumns(R) ==
    /\ \A j \in 0..(ndim - 1) : At(A, j).range[2] = R
    /\ At(A, ndim).range = <<R>>

\* C9: when compute_PALS returns, with P panels and step s on a tensor of
\* maximum mode extent M, every factor matrix has M + (P - 1) * floor(s * M)
\* columns and the weight vector has that length.
PanelGrowthRank ==
    (pc = "returned" /\ op.name = "compute_PALS") =>
        HasColumns(MaxModeExtent + (op.panels - 1) * StepColumns(op.RankStep, MaxModeExtent))

\* C10: when compute_PALS returns the rank is
\* RankStep * panels * max_dim + max_dim.
DocumentedPanelRank ==
    (pc = "returned" /\ op.name = "compute_PALS") =>
        HasColumns(StepColumns(op.RankStep, op.panels * pals.max_dim) + pals.max_dim)


BothComputed == pc = "kernel" /\ kout.direct # NoBuf /\ kout.ref # NoBuf

\* C7: for every tensor of order >= 3, every mode n and every factor set the
\* matrix direct(n) hands to the solve equals the matrix update_w_KRP(n)
\* hands to it.
DirectEqualsKRP ==
    (BothComputed /\ kin.engine = "ALS") => kout.direct = kout.ref

\* C8: for every reference pair, every mode n and every factor set the matrix
\* CP_DF_ALS::direct(n) hands to the solve equals the per-mode update of the
\* materialized tensor.
DFDirectEqualsReference ==
    (BothComputed /\ kin.engine = "DF") => kout.direct = kout.ref

\* C11: in both engines a compute_PALS call with fewer convergence tests than
\* panels, or with RankStep <= 0, ends in a configuration error with no factor
\* matrix created or changed, the reference tensor(s) as they were on entry,
\* no ALS run started and no convergence test invoked.
BadPALSConfig ==
    /\ pc \notin {"idle", "kernel"}
    /\ op.name = "compute_PALS"
    /\ (op.RankStep[1] <= 0 \/ op.nTests < op.panels)

ConfigErrorsFailFast ==
    BadPALSConfig =>
        /\ pc = "failed"
        /\ obs.failure \in {"RankStep", "tests"}
        /\ A = <<>>
        /\ RefState = obs.entry
        /\ \A k \in 1..3 : RefState[k].val \in {"none", "orig", "left", "right"}
        /\ obs.alsCalls = 0
        /\ obs.tests = 0
        /\ obs.sweeps = 0

ConfigErrorsFailFastWitness ==
    /\ BadPALSConfig
    /\ pc = "failed"
    /\ obs.failure = "tests"
    /\ engine = "DF"

\* C12: for every target rank >= 1 and every step >= 1, when build returns
\* every factor matrix has exactly `rank` columns (the common column count
\* having grown by `step` per growth step, one ALS run after each padding).
BuildReturned ==
    /\ pc = "returned"
    /\ op.name = "build"

RankGrowthReachesTarget ==
    BuildReturned => \A j \in 0..(ndim - 1) : Cols(At(A, j)) = bld.rank

\* C13: a growth step from r to r' columns (the padding in build and the
\* panel padding in compute_PALS, both engines) leaves every column c < r of
\* every A[j] as it was, keeps every factor at its own mode index (its row
\* count is that of the mode before the step) with the weight vector last,
\* and in panel growth keeps the first r weights of the weight vector.
PanelGrowthStep == pc = "pals" /\ pc' = "als"

BuildGrowthStep == pc \in {"build", "build_for"} /\ A # <<>> /\ pc' = "als"

ColumnsKept(a, b) ==
    /\ Len(b.col) >= Len(a.col)
    /\ \A c \in 1..Len(a.col) : b.col[c] = a.col[c]

GrowthKeepsFactors ==
    /\ Len(A') = ndim + 1
    /\ Len(A) = ndim + 1
    /\ \A j \in 0..(ndim - 1) :
          /\ Rows(At(A', j)) = Rows(At(A, j))
          /\ Cols(At(A', j)) >= Cols(At(A, j))
          /\ ColumnsKept(At(A, j), At(A', j))
    /\ Len(At(A', ndim).range) = 1

GrowthNeverDiscards ==
    [][/\ (PanelGrowthStep \/ BuildGrowthStep) => GrowthKeepsFactors
       /\ PanelGrowthStep => ColumnsKept(At(A, ndim), At(A', ndim))]_vars

\* C14: after a growth step from r to r' columns and before the following ALS
\* run starts, every appended column (indices r..r'-1) of every factor
\* matrix A[0..N-1] has been normalized to unit 2-norm.
AppendedNormalized ==
    \A j \in 0..(ndim - 1) :
        \A c \in (Cols(At(A, j)) + 1)..Cols(At(A', j)) : At(A', j).col[c][2] = 1

AppendedColumnsNormalized ==
    [][(PanelGrowthStep \/ BuildGrowthStep) => AppendedNormalized]_vars


\* ------------------------------------------------------------ constructors
\* The constructors that take a symmetry map, applied to caller-supplied
\* arguments: kin holds the arguments, kout what the validation did.
CtorShapes == {<<2, 3>>, <<2, 2, 2>>}

CtorPairs == {<<<<2, 2>>, <<2, 2>>>>, <<<<2, 2>>, <<3, 2>>>>, <<<<2, 3>>, <<2, 2, 2>>>>}

\* Every map of at most n + 1 entries over 0..n.
CtorMaps(n) == UNION {[1..len -> 0..n] : len \in 0..(n + 1)}

\* What symmetries[i] can yield for i >= symmetries.size(): any size_t, here
\* one value that passes every comparison with i and one that fails it.
Garbage == {0, 2147483647}

\* symmetries[i] of std::vector: unchecked element access.
ReadSymmetry(symms, g, i) == IF i < Len(symms) THEN symms[i + 1] ELSE g[i + 1]

\* for (size_t i = 0; i < ndim; ++i)
\*   if (symmetries[i] > i) BTAS_EXCEPTION("Symmetries should always refer ...");
RECURSIVE SymmetryLoop(_, _, _, _, _)
SymmetryLoop(symms, g, n, i, reads) ==
    IF i >= n THEN [failure |-> "none", reads |-> reads]
    ELSE IF ReadSymmetry(symms, g, i) > i
         THEN [failure |-> "order", reads |-> reads \cup {i}]
         ELSE SymmetryLoop(symms, g, n, i + 1, reads \cup {i})

\* CP_ALS(tensor, symms): the size test comes first and rejects only maps
\* that are too long.
CP_ALS_validate(symms, g, n) ==
    IF Len(symms) > n THEN [failure |-> "size", reads |-> {}]
    ELSE SymmetryLoop(symms, g, n, 0, {})

\* CP_DF_ALS(left, right, symms): the loop comes first, the size test after.
CP_DF_ALS_validate(symms, g, n) ==
    LET r == SymmetryLoop(symms, g, n, 0, {})
    IN  IF r.failure # "none" THEN r
        ELSE IF Len(symms) # n THEN [failure |-> "size", reads |-> r.reads]
        ELSE r

CtorOutInit == [failure |-> "none", reads |-> {}]

InitCtor ==
    /\ engine = "none"
    /\ ndim = 0
    /\ ndimL = 0
    /\ ndimR = 0
    /\ symmetries = <<>>
    /\ tensor_ref = NoTensor
    /\ tensor_ref_left = NoTensor
    /\ tensor_ref_right = NoTensor
    /\ size = 0
    /\ A = <<>>
    /\ num_ALS = 0
    /\ lastLeft = FALSE
    /\ leftTimesRight = EmptyFactor
    /\ dims = <<>>
    /\ pc = "ctor"
    /\ op = NoLocals
    /\ pals = NoLocals
    /\ bld = NoLocals
    /\ als = NoLocals
    /\ obs = ObsInit
    /\ kout = CtorOutInit
    /\ \/ \E ext \in CtorShapes : \E symms \in CtorMaps(Len(ext)) :
             kin = [engine |-> "ALS", ext |-> ext, symms |-> symms]
       \/ \E p \in CtorPairs : \E symms \in CtorMaps(Len(p[1]) + Len(p[2]) - 2) :
             kin = [engine |-> "DF", lext |-> p[1], rext |-> p[2], symms |-> symms]

CtorFrame ==
    UNCHANGED <<A, num_ALS, cache, op, pals, bld, als, obs, kin>>

\* CP_ALS(Tensor &tensor, std::vector<size_t> &symms).
CP_ALS_ctor ==
    /\ pc = "ctor"
    /\ kin.engine = "ALS"
    /\ LET n == Len(kin.ext) IN
       \E g \in [1..n -> Garbage] :
          LET r == CP_ALS_validate(kin.symms, g, n) IN
          /\ kout' = r
          /\ IF r.failure = "none"
             THEN /\ pc' = "idle"
                  /\ engine' = "ALS"
                  /\ ndim' = n
                  /\ symmetries' = kin.symms
                  /\ tensor_ref' = Tensor(kin.ext, "orig")
                  /\ size' = Prod(kin.ext)
                  /\ UNCHANGED <<ndimL, ndimR, tensor_ref_left, tensor_ref_right>>
             ELSE /\ pc' = "failed"
                  /\ UNCHANGED <<engineConst, refs>>
    /\ CtorFrame

\* CP_DF_ALS(Tensor &left, Tensor &right, std::vector<size_t> &symms).
CP_DF_ALS_ctor ==
    /\ pc = "ctor"
    /\ kin.engine = "DF"
    /\ LET n == Len(kin.lext) + Len(kin.rext) - 2 IN
       \E g \in [1..n -> Garbage] :
          LET r == CP_DF_ALS_validate(kin.symms, g, n) IN
          /\ kout' = r
          /\ IF r.failure = "none"
             THEN /\ pc' = "idle"
                  /\ engine' = "DF"
                  /\ ndim' = n
                  /\ ndimL' = Len(kin.lext)
                  /\ ndimR' = Len(kin.rext)
                  /\ symmetries' = kin.symms
                  /\ tensor_ref_left' = Tensor(kin.lext, "left")
                  /\ tensor_ref_right' = Tensor(kin.rext, "right")
                  /\ UNCHANGED <<tensor_ref, size>>
             ELSE /\ pc' = "failed"
                  /\ UNCHANGED <<engineConst, refs>>
    /\ CtorFrame

NextCtor == CP_ALS_ctor \/ CP_DF_ALS_ctor

SpecCtor == InitCtor /\ [][NextCtor]_vars

\* C15: constructing either engine with a malformed symmetry map (its length
\* differs from the number N of decomposed modes, or some symmetries[i] > i)
\* signals a configuration error at construction, and the validation never
\* reads an entry at an index at or beyond the supplied map's length.
CtorModes ==
    IF kin.engine = "ALS" THEN Len(kin.ext) ELSE Len(kin.lext) + Len(kin.rext) - 2

MalformedMap ==
    \/ Len(kin.symms) # CtorModes
    \/ \E i \in 1..Len(kin.symms) : kin.symms[i] > i - 1

SymmetryMapValidated ==
    pc \in {"idle", "failed"} =>
        /\ MalformedMap => pc = "failed"
        /\ \A k \in kout.reads : k < Len(kin.symms)

\* C16: when the left and right reference tensors of the two-tensor engine do
\* not share the same extent on mode 0, a configuration error is signalled
\* before any contraction is attempted and before either reference tensor is
\* reshaped.
MismatchedPair ==
    /\ engine = "DF"
    /\ pc \notin {"idle", "ctor"}
    /\ Extent(obs.entry[2], 0) # Extent(obs.entry[3], 0)

MismatchRejectedEarly ==
    MismatchedPair =>
        /\ tensor_ref_left = obs.entry[2]
        /\ tensor_ref_right = obs.entry[3]
        /\ obs.upd.n = -1
        /\ pc # "returned"


\* ------------------------------------------------- linear algebra routines
\* The matrix routines of linear_algebra.h and khatri_rao_product, each
\* applied once to caller-supplied arguments. kin holds the arguments and the
\* status each LAPACK kernel will report when it is called; kout holds the
\* argument A (for khatri_rao_product the arguments <<A, B>>), the result,
\* how the routine ended and the statuses the kernels it called reported.
LAShapes == {<<2, 2>>, <<3, 2>>, <<2, 2, 2>>, <<2, 1, 3>>}

\* lapack_int info of a kernel: negative is an invalid argument, positive a
\* numerical failure.
LAInfo == {-1, 0, 1}

LARoutines == {"LU_decomp", "QR_decomp", "Inverse_Matrix", "eigenvalue_decomp",
               "pseudoInverse"}

KRPShapes == {<<2, 2>>, <<3, 2>>, <<1, 2>>, <<2, 3>>, <<1, 1>>, <<2, 2, 2>>}

KRPEntryShapes == {<<1, 1>>, <<6, 2>>, <<2, 2, 2>>}

KRPData(range, seed) == [t \in 1..Prod(range) |-> seed + 2 * t]

\* lr_thresh = 1e-13, in the unit of the modelled singular values (half the
\* threshold).
lr_thresh == 2

\* The singular values dgesvd writes into s: R of them, not negative, in
\* descending order.
SVMax == 3
SingularValues(R) ==
    {sv \in [1..R -> 0..SVMax] : \A i \in 1..(R - 1) : sv[i] >= sv[i + 1]}

\* A number num / den.
Frac(num, den) == <<num, den>>

\* s_inv(R, R): s_inv.fill(0.0), then for each i the diagonal entry is
\* 1 / s(i) if s(i) > lr_thresh and s(i) otherwise.
s_inv(s, R) ==
    [i \in 1..R |-> [j \in 1..R |->
        IF i # j THEN Frac(0, 1)
        ELSE IF s[i] > lr_thresh THEN Frac(1, s[i])
        ELSE Frac(s[i], 1)]]

\* The pivot indices dgetrf writes for a matrix of m rows and k = min(m, n)
\* elimination steps: 1-based, row i (0-based) is interchanged with row
\* ipiv[i] - 1 >= i.
Pivots(m, k) == {ipiv \in [1..k -> 1..m] : \A i \in 1..k : ipiv[i] >= i}

\* The least j < i with piv(j) == i, or -1: the search loops of LU_decomp.
PivFind(piv, i) ==
    IF \E j \in 0..(i - 1) : At(piv, j) = i
    THEN CHOOSE j \in 0..(i - 1) :
            /\ At(piv, j) = i
            /\ \A l \in 0..(j - 1) : At(piv, l) # i
    ELSE -1

\* for (int i = 0; i < piv.extent(0); i++) { ... }: the walk through the
\* full pivot array.
RECURSIVE PivWalk(_, _, _)
PivWalk(piv, i, pivsize) ==
    IF i >= Len(piv) THEN piv
    ELSE LET p1 == IF (i = At(piv, i) \/ i >= pivsize) /\ PivFind(piv, i) >= 0
                   THEN SetAt(piv, i, PivFind(piv, i))
                   ELSE piv
             p2 == SetAt(p1, i, i)
             p3 == IF i >= pivsize
                   THEN IF PivFind(p2, i) >= 0 THEN SetAt(p2, i, PivFind(p2, i)) ELSE p2
                   ELSE p1
         IN  PivWalk(p3, i + 1, pivsize)

\* for (auto &j : piv) j -= 1; piv.resize(Range1{A.extent(0)}); the walk.
PivIndex(ipiv, m, fill) ==
    PivWalk(resize([i \in 1..Len(ipiv) |-> ipiv[i] - 1], m, fill), 0, Len(ipiv))

\* P.fill(0.0); for each i: P(piv(i), i) = 1.
PivMatrix(piv) ==
    [r \in 1..Len(piv) |-> [c \in 1..Len(piv) |-> IF piv[c] = r - 1 THEN 1 ELSE 0]]

LAOut(status, a, out, reported) ==
    [status |-> status, A |-> a, out |-> out, reported |-> reported]

InitLA ==
    /\ engine = "none"
    /\ ndim = 0
    /\ ndimL = 0
    /\ ndimR = 0
    /\ symmetries = <<>>
    /\ tensor_ref = NoTensor
    /\ tensor_ref_left = NoTensor
    /\ tensor_ref_right = NoTensor
    /\ size = 0
    /\ A = <<>>
    /\ num_ALS = 0
    /\ lastLeft = FALSE
    /\ leftTimesRight = EmptyFactor
    /\ dims = <<>>
    /\ pc = "la"
    /\ op = NoLocals
    /\ pals = NoLocals
    /\ bld = NoLocals
    /\ als = NoLocals
    /\ obs = ObsInit
    /\ \/ \E f \in LARoutines, r \in LAShapes, i1 \in LAInfo, i2 \in LAInfo,
             enabled \in BOOLEAN, len \in {2, 3} :
             \E sv \in SingularValues(r[1]), ipiv \in Pivots(r[1], Min(r[1], r[2])) :
             /\ f # "eigenvalue_decomp" => len = 3
             /\ f # "pseudoInverse" => sv = Rep(r[1], 0)
             /\ (f # "LU_decomp" \/ Len(r) > 2) => ipiv = [i \in 1..Len(ipiv) |-> i]
             /\ kin = [routine |-> f, A |-> Tensor(r, "in"), info |-> <<i1, i2>>,
                       LAPACKE_ENABLED |-> enabled, lambda |-> len, s |-> sv,
                       piv |-> ipiv]
             /\ kout = LAOut("pending", Tensor(r, "in"), NoTensor, <<>>)
       \/ \E ra \in KRPShapes, rb \in KRPShapes, rab \in KRPEntryShapes :
             /\ (Len(ra) = 2 /\ Len(rb) = 2) => ra[2] = rb[2]
             /\ kin = [routine |-> "khatri_rao_product", A |-> Buf(ra, KRPData(ra, 1)),
                       B |-> Buf(rb, KRPData(rb, 0)), AB |-> Buf(rab, KRPData(rab, 7))]
             /\ kout = LAOut("pending", <<Buf(ra, KRPData(ra, 1)), Buf(rb, KRPData(rb, 0))>>,
                             Buf(rab, KRPData(rab, 7)), <<>>)

LAFrame ==
    /\ pc' = "la_done"
    /\ UNCHANGED <<engineConst, refs, A, num_ALS, cache, op, pals, bld, als, obs, kin>>

\* void LU_decomp(Tensor &A).
LU_decomp ==
    /\ pc = "la"
    /\ kin.routine = "LU_decomp"
    /\ IF ~kin.LAPACKE_ENABLED \/ Rank(kin.A) > 2
       THEN kout' = LAOut("exception", kin.A, NoTensor, <<>>)
       ELSE IF kin.info[1] < 0
       THEN kout' = LAOut("exception", Tensor(kin.A.range, "dgetrf"), NoTensor,
                          <<kin.info[1]>>)
       ELSE \E fill \in Garbage :
               LET piv == PivIndex(kin.piv, Extent(kin.A, 0), fill)
               IN  kout' = LAOut("returned", Tensor(kin.A.range, "L"),
                                 [range |-> <<Len(piv), Len(piv)>>, val |-> "P",
                                  piv |-> piv, P |-> PivMatrix(piv)],
                                 <<kin.info[1]>>)
    /\ LAFrame

\* bool QR_decomp(Tensor &A).
QR_decomp ==
    /\ pc = "la"
    /\ kin.routine = "QR_decomp"
    /\ kout' =
          IF ~kin.LAPACKE_ENABLED \/ Rank(kin.A) > 2
          THEN LAOut("exception", kin.A, NoTensor, <<>>)
          ELSE IF kin.info[1] # 0
          THEN LAOut("false", Tensor(kin.A.range, "dgeqrf"), NoTensor, <<kin.info[1]>>)
          ELSE IF kin.info[2] # 0
          THEN LAOut("false", Tensor(kin.A.range, "dorgqr"), NoTensor, kin.info)
          ELSE LAOut("true", Tensor(kin.A.range, "Q"), NoTensor, kin.info)
    /\ LAFrame

\* bool Inverse_Matrix(Tensor &A).
Inverse_Matrix ==
    /\ pc = "la"
    /\ kin.routine = "Inverse_Matrix"
    /\ kout' =
          IF ~kin.LAPACKE_ENABLED \/ Rank(kin.A) > 2
          THEN LAOut("exception", kin.A, NoTensor, <<>>)
          ELSE IF kin.info[1] # 0
          THEN LAOut("false", NoTensor, NoTensor, <<kin.info[1]>>)
          ELSE IF kin.info[2] # 0
          THEN LAOut("false", NoTensor, NoTensor, kin.info)
          ELSE LAOut("true", Tensor(kin.A.range, "inverse"), NoTensor, kin.info)
    /\ LAFrame

\* void eigenvalue_decomp(Tensor &A, Tensor &lambda).
eigenvalue_decomp ==
    /\ pc = "la"
    /\ kin.routine = "eigenvalue_decomp"
    /\ kout' =
          IF ~kin.LAPACKE_ENABLED \/ Rank(kin.A) > 2
          THEN LAOut("exception", kin.A, NoTensor, <<>>)
          ELSE IF kin.lambda < MaxOf(kin.A.range)
          THEN LAOut("exception", kin.A, NoTensor, <<>>)
          ELSE IF kin.info[1] # 0
          THEN LAOut("exception", Tensor(kin.A.range, "dsyev"), NoTensor, <<kin.info[1]>>)
          ELSE LAOut("returned", Tensor(kin.A.range, "eigenvectors"), NoTensor,
                     <<kin.info[1]>>)
    /\ LAFrame

\* Tensor pseudoInverse(Tensor &a, int R), with R = a.extent(0): the workspace
\* query, then the SVD in place, then U * s_inv * Vt is returned.
pseudoInverse ==
    /\ pc = "la"
    /\ kin.routine = "pseudoInverse"
    /\ LET R == Extent(kin.A, 0) IN
       kout' =
          IF ~kin.LAPACKE_ENABLED
          THEN LAOut("exception", kin.A, NoTensor, <<>>)
          ELSE IF kin.info[1] # 0
          THEN LAOut("exception", kin.A, NoTensor, <<kin.info[1]>>)
          ELSE IF kin.info[2] # 0
          THEN LAOut("exception", Tensor(kin.A.range, "dgesvd"), NoTensor, kin.info)
          ELSE LAOut("returned", Tensor(kin.A.range, "dgesvd"),
                     [range |-> <<R, R>>, val |-> "pinv", s_inv |-> s_inv(kin.s, R)],
                     kin.info)
    /\ LAFrame

\* void khatri_rao_product(const Tensor &A, const Tensor &B, Tensor &AB).
KRPCall ==
    /\ pc = "la"
    /\ kin.routine = "khatri_rao_product"
    /\ kout' =
          IF Rank(kin.A) # 2 \/ Rank(kin.B) # 2
          THEN LAOut("exception", <<kin.A, kin.B>>, kin.AB, <<>>)
          ELSE LET A_row == Extent(kin.A, 0)
                   B_row == Extent(kin.B, 0)
                   KRP_dim == Extent(kin.A, 1)
               IN  LAOut("returned", <<kin.A, kin.B>>,
                         Buf(<<A_row * B_row, KRP_dim>>,
                             khatri_rao_product(kin.A.data, A_row, kin.B.data, B_row,
                                                KRP_dim)),
                         <<>>)
    /\ LAFrame

NextLA ==
    \/ LU_decomp
    \/ QR_decomp
    \/ Inverse_Matrix
    \/ eigenvalue_decomp
    \/ pseudoInverse
    \/ KRPCall

SpecLA == InitLA /\ [][NextLA]_vars

\* C17: each of LU_decomp, QR_decomp, Inverse_Matrix, eigenvalue_decomp,
\* pseudoInverse and khatri_rao_product, given an input array of order > 2,
\* signals a configuration error before calling any numeric kernel and
\* leaves its in/out arguments unmodified.
HigherOrderInput ==
    /\ pc = "la_done"
    /\ \/ Rank(kin.A) > 2
       \/ kin.routine = "khatri_rao_product" /\ Rank(kin.B) > 2

LAArgs == IF kin.routine = "khatri_rao_product" THEN <<kin.A, kin.B>> ELSE kin.A

HigherOrderRejected ==
    HigherOrderInput =>
        /\ kout.status = "exception"
        /\ kout.reported = <<>>
        /\ kout.A = LAArgs
        /\ kin.routine = "khatri_rao_product" => kout.out = kin.AB

\* C18: for each of LU_decomp, QR_decomp, Inverse_Matrix, eigenvalue_decomp
\* and pseudoInverse, every nonzero status a LAPACK kernel returned is
\* reported to the caller as a failure (exception or false return value): no
\* routine returns normally after a kernel reported a nonzero status.
KernelFailed ==
    /\ pc = "la_done"
    /\ kin.routine \in LARoutines
    /\ \E k \in 1..Len(kout.reported) : kout.reported[k] # 0

KernelFailuresSurfaced ==
    KernelFailed => kout.status \in {"exception", "false"}

\* C19: for matrices A of shape (N, M) and B of shape (K, M),
\* khatri_rao_product leaves AB with shape (N*K, M) whatever AB's shape was
\* on entry, with AB(i*K + j, c) = A(i, c) * B(j, c) for all i < N, j < K,
\* c < M, and leaves A and B unchanged.
KRPReturned ==
    /\ pc = "la_done"
    /\ kin.routine = "khatri_rao_product"
    /\ Rank(kin.A) = 2
    /\ Rank(kin.B) = 2
    /\ Extent(kin.A, 1) = Extent(kin.B, 1)

KhatriRaoProduct ==
    KRPReturned =>
        LET N == Extent(kin.A, 0)
            K == Extent(kin.B, 0)
            M == Extent(kin.A, 1)
        IN  /\ kout.status = "returned"
            /\ kout.out.range = <<N * K, M>>
            /\ Len(kout.out.data) = N * K * M
            /\ \A i \in 0..(N - 1), j \in 0..(K - 1), c \in 0..(M - 1) :
                  At(kout.out.data, (i * K + j) * M + c)
                      = At(kin.A.data, i * M + c) * At(kin.B.data, j * M + c)
            /\ kout.A = <<kin.A, kin.B>>

KhatriRaoProductWitness ==
    /\ KRPReturned
    /\ kin.A.range = <<3, 2>>
    /\ kin.B.range = <<2, 2>>
    /\ kin.AB.range = <<2, 2, 2>>
    /\ kout.out.range = <<6, 2>>

\* C20: in the single-tensor engine's SVD guess at rank R, when the first ALS
\* sweep starts every mode i with symmetries[i] == i, mode 0 included, has
\* A[i] of shape (extent_i, R) whose first min(extent_i, R) columns are
\* column-normalized eigenvectors of mode i's Gram matrix and whose columns
\* beyond extent_i are random-filled, and every aliased mode equals its alias
\* target; no independent mode's factor is the zero matrix.
GuessStart ==
    /\ engine = "ALS"
    /\ pc = "als"
    /\ als.ret = "build_guess"
    /\ als.count = 0

SVDGuessCoversModes ==
    GuessStart =>
        \A i \in 0..(ndim - 1) :
            IF At(symmetries, i) = i
            THEN /\ Rows(At(A, i)) = Extent(tensor_ref, i)
                 /\ Cols(At(A, i)) = als.rank
                 /\ \A c \in 1..als.rank :
                       IF c <= Extent(tensor_ref, i)
                       THEN At(A, i).col[c] = Tag("svd", 1, 0, 0)
                       ELSE At(A, i).col[c][1] = "rand"
                 /\ \E c \in 1..als.rank : At(A, i).col[c][1] # "zero"
            ELSE At(A, i) = At(A, At(symmetries, i))

\* C21: in both engines, when calculate_epsilon is true the error value
\* delivered by ALS and returned by compute_PALS is 1 - fit when the policy
\* is FitCheck and otherwise the Frobenius norm of reconstruct() minus the
\* reference tensor; the sentinel -1 is returned only when calculate_epsilon
\* is false.
EpsilonDelivered ==
    \/ pc = "returned" /\ op.name = "compute_PALS"
    \/ pc \in {"pals", "build_for", "scale"} /\ obs.alsReturned

ErrorReported ==
    EpsilonDelivered =>
        /\ op.calculate_epsilon =>
              op.epsilon = IF op.FitCheck THEN "one_minus_fit" ELSE "residual"
        /\ op.epsilon = "sentinel" => ~op.calculate_epsilon

\* ------------------------------------------------------------------- C22
\* The reference tensor handed to the single-tensor engine has no elements.
ZeroElements ==
    /\ engine = "ALS"
    /\ pc \notin {"idle", "kernel", "ctor", "la", "la_done"}
    /\ op.name \in {"compute_PALS", "build"}
    /\ Prod(obs.entry[1].range) = 0

\* C22: a decomposition of a reference tensor with zero elements returns at
\* once: no ALS run is started, no sweep is counted, no mode is contracted,
\* and what is returned are factor matrices with zero columns and the error
\* value zero.
ZeroElementBoundary ==
    ZeroElements =>
        /\ obs.alsCalls = 0
        /\ num_ALS = 0
        /\ obs.order = <<>>
        /\ pc = "returned" =>
              /\ \A j \in 0..(ndim - 1) : Cols(At(A, j)) = 0
              /\ op.epsilon = "zero"

\* ------------------------------------------------------------------- C23
\* A build or compute_PALS call has returned, or the build_random call of a
\* compressed decomposition has.
CallCompleted ==
    \/ pc = "returned" /\ op.name \in {"build", "compute_PALS"}
    \/ pc = "scale"

\* C23: after every completed build, build_random or compute_PALS call, also
\* one on an engine that holds the factors of an earlier call, the factor set
\* has ndim + 1 entries: A[j] for j < ndim has as many rows as mode j has
\* extent, all of them have the same number R of columns, and A[ndim] is a
\* vector of length R.
FactorSetShape ==
    CallCompleted =>
        /\ Len(A) = ndim + 1
        /\ \A j \in 0..(ndim - 1) :
              /\ Rank(At(A, j)) = 2
              /\ Rows(At(A, j)) = ModeExtent(j)
              /\ Cols(At(A, j)) = Cols(At(A, 0))
        /\ At(A, ndim).range = <<Cols(At(A, 0))>>

\* ------------------------------------------------------------------- C24
\* pseudoInverse has returned.
PseudoInverseReturned ==
    /\ pc = "la_done"
    /\ kin.routine = "pseudoInverse"
    /\ kout.status = "returned"

\* C24: in the inverted singular-value matrix of pseudoInverse every
\* off-diagonal entry is 0, a singular value greater than the threshold
\* contributes its reciprocal, and a singular value not greater than the
\* threshold is cut off and contributes 0.
RankCutoff ==
    PseudoInverseReturned =>
        \A i \in 1..Extent(kin.A, 0), j \in 1..Extent(kin.A, 0) :
            kout.out.s_inv[i][j] =
                IF i # j THEN Frac(0, 1)
                ELSE IF kin.s[i] > lr_thresh THEN Frac(1, kin.s[i])
                ELSE Frac(0, 1)

\* ------------------------------------------------------------------- C25
\* C25: in compute_PALS of the two-tensor engine the maximum extent that
\* fixes the rank of panel 0 and the per-panel increment is the largest
\* extent among the modes of the represented tensor (left modes 1..L-1 and
\* right modes 1..R-1); the connecting dimension does not influence it.
FirstPanelRankDF ==
    (engine = "DF" /\ pc = "pals") => pals.max_dim = MaxModeExtent

\* ----------------------------------------------------- RALSHelper (C26)
\* Number of modes of the helper and the calls of one helper that are
\* followed.
RALSModes == 2
MaxRALSCalls == 3

\* The factor matrices handed to the helper: one range, entries 0 or 1.
RALSRange == <<1, 2>>
RALSEntries == {0, 1}
RALSMatrices == [1..Prod(RALSRange) -> RALSEntries]

\* An operator() that takes no snapshot.
RALSStoreNone(prev_, mode, An) == prev_

\* prev_[mode] = An.
RALSStore(prev_, mode, An) == SetAt(prev_, mode, An)

\* s = sqrt(s) / sqrt(denom) with s the sum of the squares of An - prev_[mode]
\* and denom the sum of the squares of An, kept as the two sums: the value is
\* 0 when s = 0 < denom, not a number when s = 0 = denom, infinite when
\* s > 0 = denom.
RALSStep(prev, An) ==
    [s |-> SumSeq([i \in 1..Len(An) |-> (An[i] - prev[i]) * (An[i] - prev[i])]),
     denom |-> SumSeq([i \in 1..Len(An) |-> An[i] * An[i]])]

\* RALSHelper(std::vector<Tensor> prev).
InitRALS ==
    /\ engine = "none"
    /\ ndim = 0
    /\ ndimL = 0
    /\ ndimR = 0
    /\ symmetries = <<>>
    /\ tensor_ref = NoTensor
    /\ tensor_ref_left = NoTensor
    /\ tensor_ref_right = NoTensor
    /\ size = 0
    /\ A = <<>>
    /\ num_ALS = 0
    /\ lastLeft = FALSE
    /\ leftTimesRight = EmptyFactor
    /\ dims = <<>>
    /\ pc = "rals"
    /\ op = NoLocals
    /\ pals = NoLocals
    /\ bld = NoLocals
    /\ als = NoLocals
    /\ obs = ObsInit
    /\ \E prev \in [1..RALSModes -> RALSMatrices] :
          /\ kin = [prev |-> prev]
          /\ kout = [prev_ |-> prev, ret |-> [s |-> 0, denom |-> 0], calls |-> <<>>]

\* double operator()(int mode, const Tensor &An).
RALSHelperCall ==
    /\ pc = "rals"
    /\ Len(kout.calls) < MaxRALSCalls
    /\ \E mode \in 0..(RALSModes - 1), An \in RALSMatrices :
          kout' = [prev_ |-> RALSStore(kout.prev_, mode, An),
                   ret |-> RALSStep(At(kout.prev_, mode), An),
                   calls |-> Append(kout.calls, <<mode, An>>)]
    /\ UNCHANGED <<engineConst, refs, A, num_ALS, cache, pc, op, pals, bld, als, obs, kin>>

NextRALS == RALSHelperCall

SpecRALS == InitRALS /\ [][NextRALS]_vars

\* The matrix of the most recent call for mode m among the calls h, or the
\* constructor's matrix if there was none.
RECURSIVE LastPassed(_, _)
LastPassed(h, m) ==
    IF h = <<>> THEN At(kin.prev, m)
    ELSE IF h[Len(h)][1] = m THEN h[Len(h)][2]
    ELSE LastPassed(SubSeq(h, 1, Len(h) - 1), m)

RALSCalled == pc = "rals" /\ kout.calls # <<>>

\* The last call repeats the call before it: same mode, same An.
RALSRepeated ==
    /\ RALSCalled
    /\ Len(kout.calls) >= 2
    /\ kout.calls[Len(kout.calls)] = kout.calls[Len(kout.calls) - 1]

\* What the last call returned and stored, against the calls made so far.
RALSSnapshots ==
    LET n == Len(kout.calls)
        mode == kout.calls[n][1]
        An == kout.calls[n][2]
        earlier == SubSeq(kout.calls, 1, n - 1)
    IN  /\ kout.ret = RALSStep(LastPassed(earlier, mode), An)
        /\ At(kout.prev_, mode) = An
        /\ \A m \in 0..(RALSModes - 1) :
              m # mode => At(kout.prev_, m) = LastPassed(earlier, m)

RALSReturnedZero == kout.ret.s = 0 /\ kout.ret.denom > 0

\* C26 as stated: operator()(mode, An) returns the norm of An - prev[mode]
\* over the norm of An, with prev[mode] the matrix of the most recent earlier
\* call for that mode or the constructor's, replaces prev[mode] by An and
\* leaves the other snapshots unchanged, so that an immediately repeated call
\* with the same mode and An returns 0.
StepSizeSnapshots ==
    RALSCalled =>
        /\ RALSSnapshots
        /\ RALSRepeated => RALSReturnedZero

\* C26, amended: as above, and an immediately repeated call with the same
\* mode and An returns 0 when An has an entry that is not zero; for An of
\* norm zero the quotient 0 / 0 is returned, which is not a number.
StepSizeSnapshotsNonzero ==
    RALSCalled =>
        /\ RALSSnapshots
        /\ RALSRepeated =>
              IF kout.ret.denom > 0 THEN RALSReturnedZero
              ELSE kout.ret = [s |-> 0, denom |-> 0]

\* A repeated call after a call for the other mode came between the
\* constructor and the repeated pair.
StepSizeSnapshotsWitness ==
    /\ RALSRepeated
    /\ Len(kout.calls) = 3
    /\ kout.calls[1][1] # kout.calls[2][1]
    /\ kout.ret.denom > 0
    /\ kout.calls[3][2] # At(kin.prev, kout.calls[3][1])

\* ------------------------------------------------------------------- C27
\* direct(n, ...) of the two-tensor engine has just updated mode obs.upd.n.
DirectJustRan ==
    /\ engine = "DF"
    /\ pc \in {"als_mode", "als_test"}
    /\ obs.upd.n >= 0
    /\ als.i = obs.upd.n + 1
    /\ obs.order # <<>>
    /\ obs.order[Len(obs.order)] = obs.upd.n

\* C27: whenever a per-mode update of the two-tensor engine uses the cached
\* intermediate without recomputing it, the cache is what a recomputation
\* from the current factor matrices of the other side and the current rank
\* gives.
CacheFreshness ==
    (DirectJustRan /\ ~obs.upd.recomputed) =>
        /\ Rank(leftTimesRight) = 2
        /\ Cols(leftTimesRight) = als.rank
        /\ leftTimesRight.from = OtherSide(A, obs.upd.n)

\* ------------------------------------------------------------------- C28
\* C28: every reshape of the running intermediate of CP_ALS::direct, inside
\* the Hadamard loop and before the final contraction of mode 0, asks for as
\* many elements as the intermediate holds, for every order, mode and
\* extents.
ReshapesPreserveCount ==
    (pc = "kernel" /\ kin.engine = "ALS" /\ kout.direct # NoBuf) =>
        \A k \in 1..Len(kout.resizes) : kout.resizes[k][1] = kout.resizes[k][2]

\* ------------------------------------------------------------------- C29
\* The rows 0..m-1 after the interchanges of rows i and ipiv[i] - 1, applied
\* in order from step i on.
RECURSIVE Interchanged(_, _, _)
Interchanged(rows, ipiv, i) ==
    IF i > Len(ipiv) THEN rows
    ELSE Interchanged([rows EXCEPT ![i] = rows[ipiv[i]], ![ipiv[i]] = rows[i]],
                      ipiv, i + 1)

LUReturned ==
    /\ pc = "la_done"
    /\ kin.routine = "LU_decomp"
    /\ kout.status = "returned"

\* C29: for every pivot vector the LU kernel can return, the index array
\* built in LU_decomp is a permutation of 0..m-1, the matrix P has exactly
\* one 1 in every row and every column, and P is the row permutation
\* obtained by applying the interchanges in order.
PivotIsPermutation ==
    LUReturned =>
        LET m == Extent(kin.A, 0)
            piv == kout.out.piv
            P == kout.out.P
        IN  /\ \A v \in 0..(m - 1) : \E i \in 1..m : piv[i] = v
            /\ \A r \in 1..m : SumSeq(P[r]) = 1
            /\ \A c \in 1..m : SumSeq([r \in 1..m |-> P[r][c]]) = 1
            /\ piv = Interchanged([i \in 1..m |-> i - 1], kin.piv, 1)

\* ------------------------------------------------------------------- C30
\* The SVD guess of the two-tensor engine has been built and handed to ALS.
GuessStartDF ==
    /\ engine = "DF"
    /\ pc = "als"
    /\ als.ret = "build_guess"
    /\ als.count = 0

\* C30: for every left order L >= 2 and right order R >= 2 the extent list
\* that shapes the materialized tensor has L + R - 2 entries, left.extent(1
\* .. L-1) followed by right.extent(1 .. R-1); every entry is written exactly
\* once and no write falls outside the list.
MaterializedExtents ==
    GuessStartDF =>
        /\ TRdims = [k \in 1..(ndimL + ndimR - 2) |->
                        IF k <= ndimL - 1 THEN Extent(tensor_ref_left, k)
                        ELSE Extent(tensor_ref_right, k - ndimL + 1)]
        /\ \A k \in 0..(ndimL + ndimR - 3) :
              Cardinality({w \in 1..Len(TRdimsWrites) : TRdimsWrites[w] = k}) = 1
        /\ \A w \in 1..Len(TRdimsWrites) : TRdimsWrites[w] < ndimL + ndimR - 2
====
